---- MODULE Spec2Model ----
(***************************************************************************)
(* rt-event-sim: periodic real-time tasks on one processor under EDF and   *)
(* RM.  The module models                                                  *)
(*   - the Task/Job data model            (models/models.py),              *)
(*   - the scheduler and its ready queue  (schedulers/schedulers.py),      *)
(*   - the tick-driven and the event-driven engine and the statistics      *)
(*     (simulation/simulator.py),                                          *)
(*   - the schedulability tests is_scalable of both schedulers.            *)
(* Python objects are modelled by value; a Job, which the code mutates and *)
(* shares between the processor, the ready queue and COMPLETION events, is  *)
(* kept in a store indexed by its job_id and referred to by that id.       *)
(***************************************************************************)
EXTENDS Integers, Sequences, FiniteSets, TLC

VARIABLES
    tasks,      \* Simulator.tasks: the list of Task objects
    algo,       \* the scheduler variant: "EDF" or "RM"
    sim,        \* the fields of the Simulator and of its Scheduler
    call,       \* the locals of the run / run_event_driven call in progress
    result,     \* what the last call returned; None while a call is in progress
    previous,   \* the engine of the call made before the last one, if any
    analysis    \* the locals of the is_scalable call; None before the call

vars == <<tasks, algo, sim, call, result, previous, analysis>>

-----------------------------------------------------------------------------
(* Bounds of the model.                                                    *)

MaxWcet == 2
MaxPeriod == 3
MaxHorizon == 3
\* The names of the tasks of a task set, in list order.
TaskNames == <<"T1", "T2">>

-----------------------------------------------------------------------------
(* Optional values: None or one value.                                     *)

None == << >>
Some(x) == <<x>>
IsSome(o) == o # None
The(o) == o[1]

Max(a, b) == IF a >= b THEN a ELSE b

-----------------------------------------------------------------------------
(* models.py                                                               *)

\* Task.__post_init__: the constraints a Task must satisfy to be constructed.
TaskValid(wcet, period, deadline) ==
    /\ ~(wcet <= 0)
    /\ ~(period <= 0)
    /\ ~(deadline <= 0)
    /\ ~(deadline > period)

Task(name, wcet, period, deadline) ==
    [name |-> name, wcet |-> wcet, period |-> period, deadline |-> deadline]

\* Job(task, release_time, remaining, absolute_deadline, job_id)
Job(task, release_time, remaining, absolute_deadline, job_id) ==
    [task |-> task, release_time |-> release_time, remaining |-> remaining,
     absolute_deadline |-> absolute_deadline, job_id |-> job_id]

\* is_finished with "<" for "<="
is_finished_strict(job) == job.remaining < 0

\* Job.is_finished
is_finished(job) == job.remaining <= 0

-----------------------------------------------------------------------------
(* heapq, as CPython implements it, on a 1-based sequence (heap[i + 1] is  *)
(* Python's heap[i]).  The only comparison heapq uses is "<".              *)

\* EventType values
JOB_RELEASE == "job_release"
JOB_COMPLETION == "job_completion"

\* str "<" on the two EventType values: "job_completion" < "job_release"
\* (the strings agree up to "job_" and then 'c' < 'r').
StrLess(a, b) == a = JOB_COMPLETION /\ b = JOB_RELEASE

\* Event.__lt__
EventLess(self, other) ==
    IF self.time # other.time
    THEN self.time < other.time
    ELSE StrLess(self.event_type, other.event_type)

\* A ready-queue entry, the tuple (priority, counter, job)
Entry(priority, counter, job) ==
    [priority |-> priority, counter |-> counter, job |-> job]

\* tuple "<" on ready-queue entries: lexicographic.  The counter is unique
\* between two clears, so the comparison never reaches the Job.
EntryLess(a, b) ==
    \/ a.priority < b.priority
    \/ a.priority = b.priority /\ a.counter < b.counter

\* Event(time, event_type, task, job)
Event(time, event_type, task, job) ==
    [time |-> time, event_type |-> event_type, task |-> task, job |-> job]

IsEvent(x) == "event_type" \in DOMAIN x

\* x < y as Python dispatches it on the operand's type
Less(x, y) == IF IsEvent(x) THEN EventLess(x, y) ELSE EntryLess(x, y)

RECURSIVE SiftDownLoop(_, _, _, _)
SiftDownLoop(heap, startpos, pos, newitem) ==
    IF pos > startpos
    THEN LET parentpos == (pos - 1) \div 2
             parent == heap[parentpos + 1]
         IN  IF Less(newitem, parent)
             THEN SiftDownLoop([heap EXCEPT ![pos + 1] = parent],
                               startpos, parentpos, newitem)
             ELSE [heap EXCEPT ![pos + 1] = newitem]
    ELSE [heap EXCEPT ![pos + 1] = newitem]

\* heapq._siftdown(heap, startpos, pos)
SiftDown(heap, startpos, pos) == SiftDownLoop(heap, startpos, pos, heap[pos + 1])

RECURSIVE SiftUpLoop(_, _, _, _)
SiftUpLoop(heap, startpos, pos, newitem) ==
    LET endpos == Len(heap)
        childpos == 2 * pos + 1
    IN  IF childpos < endpos
        THEN LET rightpos == childpos + 1
                 c == IF rightpos < endpos
                         /\ ~Less(heap[childpos + 1], heap[rightpos + 1])
                      THEN rightpos ELSE childpos
             IN  SiftUpLoop([heap EXCEPT ![pos + 1] = heap[c + 1]],
                            startpos, c, newitem)
        ELSE SiftDown([heap EXCEPT ![pos + 1] = newitem], startpos, pos)

\* heapq._siftup(heap, pos)
SiftUp(heap, pos) == SiftUpLoop(heap, pos, pos, heap[pos + 1])

\* list.append(item) for heapq.heappush(heap, item)
heappush_as_append(heap, item) == Append(heap, item)

\* heapq.heappush(heap, item)
heappush(heap, item) == SiftDown(Append(heap, item), 0, Len(heap))

\* heapq.heappop(heap): the item returned and the heap left
heappop(heap) ==
    LET lastelt == heap[Len(heap)]
        rest == SubSeq(heap, 1, Len(heap) - 1)
    IN  IF rest # << >>
        THEN [item |-> rest[1], heap |-> SiftUp([rest EXCEPT ![1] = lastelt], 0)]
        ELSE [item |-> lastelt, heap |-> rest]

RECURSIVE HeapifyLoop(_, _)
HeapifyLoop(x, i) ==
    IF i < 0 THEN x ELSE HeapifyLoop(SiftUp(x, i), i - 1)

\* heapq.heapify(x)
heapify(x) == HeapifyLoop(x, (Len(x) \div 2) - 1)

-----------------------------------------------------------------------------
(* Python float: IEEE 754 binary64, round to nearest, ties to even.  A     *)
(* positive normal double is [e, hi, lo]: its 53-bit significand is        *)
(* hi * 2^26 + lo with 2^26 <= hi < 2^27 and 0 <= lo < 2^26, and its value *)
(* is significand * 2^(e - 52).  Zero has hi = lo = 0.  Only what          *)
(* is_scalable and success_rate compute is modelled: int / int for ints    *)
(* below 2^18, float + float and float * int on non-negative values, and   *)
(* float <= float.                                                         *)

Float(e, hi, lo) == [e |-> e, hi |-> hi, lo |-> lo]

\* 2^26, the weight of the high part of a significand
Limb == 2 ^ 26

\* 2^13: the quotient of a division is computed 13 bits at a time
Chunk == 2 ^ 13

FloatZero == Float(0, 0, 0)
FloatOne == Float(0, Limb, 0)

IsZero(x) == x.hi = 0

\* the double with exponent e whose significand is (hi, lo) plus one unit in
\* the last place
RoundedUp(e, hi, lo) ==
    IF lo + 1 < Limb THEN Float(e, hi, lo + 1)
    ELSE IF hi + 1 < 2 * Limb THEN Float(e, hi + 1, 0)
    ELSE Float(e + 1, Limb, 0)

\* round to nearest, ties to even: (hi, lo) is the truncated significand,
\* half is TRUE when the first discarded bit is 1, sticky when a later one is
Rounded(e, hi, lo, half, sticky) ==
    IF half /\ (sticky \/ lo % 2 = 1) THEN RoundedUp(e, hi, lo) ELSE Float(e, hi, lo)

RECURSIVE DivNormal(_, _, _)
\* a / b with a and b scaled by powers of two until 1 <= a / b < 2; then 52
\* more quotient bits by long division, in four chunks, and the rounding
DivNormal(a, b, e) ==
    IF a < b THEN DivNormal(2 * a, b, e - 1)
    ELSE IF a >= 2 * b THEN DivNormal(a, 2 * b, e + 1)
    ELSE LET r0 == a - b
             q1 == (r0 * Chunk) \div b
             r1 == (r0 * Chunk) % b
             q2 == (r1 * Chunk) \div b
             r2 == (r1 * Chunk) % b
             q3 == (r2 * Chunk) \div b
             r3 == (r2 * Chunk) % b
             q4 == (r3 * Chunk) \div b
             r4 == (r3 * Chunk) % b
         IN  Rounded(e, Limb + q1 * Chunk + q2, q3 * Chunk + q4,
                     2 * r4 >= b, 2 * r4 > b)

\* int.__truediv__ for a >= 0 and b > 0: the correctly rounded quotient
FloatDiv(a, b) == IF a = 0 THEN FloatZero ELSE DivNormal(a, b, 0)

\* float * int for a non-negative double and 1 <= m < 2^7: the exact product
\* of the significand and m, 13 bits at a time, shifted back to 53 bits and
\* rounded
FloatTimes(x, m) ==
    IF IsZero(x) THEN x
    ELSE LET p0 == (x.lo % Chunk) * m
             p1 == (x.lo \div Chunk) * m + p0 \div Chunk
             p2 == (x.hi % Chunk) * m + p1 \div Chunk
             p3 == (x.hi \div Chunk) * m + p2 \div Chunk
             d0 == p0 % Chunk
             d1 == p1 % Chunk
             d2 == p2 % Chunk
             s == CHOOSE k \in 0..7 :
                     Chunk <= p3 \div (2 ^ k) /\ p3 \div (2 ^ k) < 2 * Chunk
             w == 2 ^ s
             u == Chunk \div w
             hi == (p3 \div w) * Chunk + (d2 \div w) + (p3 % w) * u
             lo == ((d1 \div w) + (d2 % w) * u) * Chunk
                   + (d0 \div w) + (d1 % w) * u
         IN  Rounded(x.e + s, hi, lo,
                     s > 0 /\ (d0 \div (2 ^ (s - 1))) % 2 = 1,
                     s > 1 /\ d0 % (2 ^ (s - 1)) # 0)

\* bit i (from 0) of the significand of y
SigBit(y, i) ==
    IF i < 26 THEN (y.lo \div (2 ^ i)) % 2 ELSE (y.hi \div (2 ^ (i - 26))) % 2

\* some bit below bit j of the significand of y is 1
SigLowBits(y, j) ==
    IF j <= 26 THEN y.lo % (2 ^ j) # 0
    ELSE y.lo # 0 \/ y.hi % (2 ^ (j - 26)) # 0

\* the significand of y shifted right by d bits, as (hi, lo)
SigShifted(y, d) ==
    IF d < 26
    THEN [hi |-> y.hi \div (2 ^ d),
          lo |-> (y.lo \div (2 ^ d)) + (y.hi % (2 ^ d)) * (2 ^ (26 - d))]
    ELSE LET v == y.hi \div (2 ^ (d - 26))
         IN  [hi |-> v \div Limb, lo |-> v % Limb]

\* x + y for positive doubles with x.e >= y.e
AddOrdered(x, y) ==
    LET d == x.e - y.e
    IN  IF d > 54 THEN x
        ELSE LET s == SigShifted(y, d)
                 half == d > 0 /\ SigBit(y, d - 1) = 1
                 sticky == d > 1 /\ SigLowBits(y, d - 1)
                 lo == x.lo + s.lo
                 hi == x.hi + s.hi + (lo \div Limb)
                 l == lo % Limb
             IN  IF hi < 2 * Limb
                 THEN Rounded(x.e, hi, l, half, sticky)
                 ELSE Rounded(x.e + 1, hi \div 2, (l \div 2) + (hi % 2) * (Limb \div 2),
                              l % 2 = 1, half \/ sticky)

\* float.__add__ on non-negative doubles
FloatAdd(x, y) ==
    IF IsZero(x) THEN y
    ELSE IF IsZero(y) THEN x
    ELSE IF x.e >= y.e THEN AddOrdered(x, y) ELSE AddOrdered(y, x)

\* float.__le__ on non-negative doubles
FloatLe(x, y) ==
    IF IsZero(x) THEN TRUE
    ELSE IF IsZero(y) THEN FALSE
    ELSE IF x.e # y.e THEN x.e < y.e
    ELSE IF x.hi # y.hi THEN x.hi < y.hi
    ELSE x.lo <= y.lo

-----------------------------------------------------------------------------
(* schedulers.py: Scheduler, EDFScheduler, RMScheduler.  The scheduler's   *)
(* fields ready_queue and counter are fields of the record S, which also   *)
(* holds the Simulator's fields and the Job objects (S.jobs).              *)

\* _get_priority with the priority of RMScheduler in EDFScheduler too
get_priority_by_period(job) == job.task.period

\* EDFScheduler._get_priority / RMScheduler._get_priority
get_priority(job) ==
    IF algo = "EDF" THEN job.absolute_deadline ELSE job.task.period

\* Scheduler.name
SchedulerName ==
    IF algo = "EDF" THEN "Earliest Deadline First (EDF)" ELSE "Rate Monotonic (RM)"

\* Scheduler.add_job(job); the job is given by its id
add_job(S, id) ==
    LET priority == get_priority(S.jobs[id])
    IN  [S EXCEPT !.ready_queue = heappush(@, Entry(priority, S.counter, id)),
                  !.counter = @ + 1]

\* Scheduler.get_next_job(): the job returned (None when the queue is empty)
\* and the scheduler left
get_next_job(S) ==
    IF S.ready_queue = << >>
    THEN [job |-> None, S |-> S]
    ELSE LET p == heappop(S.ready_queue)
         IN  [job |-> Some(p.item.job), S |-> [S EXCEPT !.ready_queue = p.heap]]

\* Scheduler.has_jobs()
has_jobs(S) == Len(S.ready_queue) > 0

\* Scheduler.clear()
clear(S) == [S EXCEPT !.ready_queue = << >>, !.counter = 0]

-----------------------------------------------------------------------------
(* schedulers.py: is_scalable of both schedulers, and the validate command *)
(* of cli.py that calls it.                                                *)

\* constants.py
EDF_SCALABILITY_MESSAGE ==
    "The scheduler is scalable for the given tasks because the CPU total utilization is less than or equal to 1."
EDF_NON_SCALABILITY_MESSAGE ==
    "The scheduler is not scalable for the given tasks because the CPU total utilization is greater than 1."
RM_LL_SCALABILITY_MESSAGE ==
    "The scheduler is scalable for the given tasks because the CPU total utilization is less or equal to the Liu and Layland utilization bound."
RM_RTA_SCALABILITY_MESSAGE ==
    "The scheduler is scalable for the given tasks because the RTA calculation is less or equal to the deadline of the least priority task."
RM_RTA_NON_SCALABILITY_MESSAGE ==
    "The scheduler is not scalable for the given tasks because the RTA calculation is greater than the deadline of the least priority task."

\* What a call yields: the tuple (ok, message), a bare bool, or an exception
ReturnPair(ok, message) == [kind |-> "pair", ok |-> ok, message |-> message]
ReturnBool(ok) == [kind |-> "bool", ok |-> ok, message |-> ""]
Raise(error) == [kind |-> "raise", ok |-> FALSE, message |-> error]

RECURSIVE SumUtilization(_, _, _)
SumUtilization(l, i, acc) ==
    IF i > Len(l) THEN acc
    ELSE SumUtilization(l, i + 1, FloatAdd(acc, FloatDiv(l[i].wcet, l[i].period)))

\* sum(task.wcet / task.period for task in tasks): sum() starts from 0 and
\* adds the quotients from left to right, each addition rounded
total_utilization(l) == SumUtilization(l, 1, FloatZero)

\* EDFScheduler.is_scalable(tasks)
EDF_is_scalable(l) ==
    LET is_scalable == FloatLe(total_utilization(l), FloatOne)
    IN  ReturnPair(is_scalable,
                   IF is_scalable THEN EDF_SCALABILITY_MESSAGE
                   ELSE EDF_NON_SCALABILITY_MESSAGE)

\* n * (2 ** (1 / n) - 1) as line 100 computes it in binary64 (libm's pow),
\* for the n of the model:
\*   n = 1: 1.0 = 0x1.0000000000000p+0
\*   n = 2: 0.8284271247461903 = 0x1.a827999fcef34p-1
\*   n = 3: 0.7797631496846196 = 0x1.8f3d1d950af42p-1
\*   n = 4: 0.7568284600108841 = 0x1.837f0518db8a8p-1
\*   n = 5: 0.7434917749851755 = 0x1.7caaf434d0092p-1
utilization_bound(n) ==
    IF n = 1 THEN FloatOne
    ELSE IF n = 2 THEN Float(-1, 111189606, 33353524)
    ELSE IF n = 3 THEN Float(-1, 104658038, 22064962)
    ELSE IF n = 4 THEN Float(-1, 101579796, 26065064)
    ELSE Float(-1, 99789776, 55378066)

RECURSIVE InsertByPeriod(_, _)
\* l, sorted, with task t put after the tasks whose period is not larger
InsertByPeriod(l, t) ==
    IF l = << >> THEN <<t>>
    ELSE IF l[Len(l)].period <= t.period THEN Append(l, t)
    ELSE Append(InsertByPeriod(SubSeq(l, 1, Len(l) - 1), t), l[Len(l)])

RECURSIVE SortLoop(_, _, _)
SortLoop(l, i, acc) ==
    IF i > Len(l) THEN acc ELSE SortLoop(l, i + 1, InsertByPeriod(acc, l[i]))

\* sorted(tasks, key=lambda task: task.period): stable
sorted_by_period(l) == SortLoop(l, 1, << >>)

RECURSIVE SumWcet(_, _)
\* sum(hp_task.wcet for hp_task in sorted_tasks[:n])
SumWcet(l, n) == IF n = 0 THEN 0 ELSE SumWcet(l, n - 1) + l[n].wcet

\* lines 111-113: task i (from 1) of the sorted list and the tasks before it
initial_response_time(l, i) == l[i].wcet + SumWcet(l, i - 1)

RECURSIVE Interference(_, _, _)
\* sum(((response_time + hp.period - 1) // hp.period) * hp.wcet
\*     for hp in sorted_tasks[:n])
Interference(l, n, response_time) ==
    IF n = 0 THEN 0
    ELSE Interference(l, n - 1, response_time)
         + ((response_time + l[n].period - 1) \div l[n].period) * l[n].wcet

\* The new estimate without the task's own wcet
new_response_time_without_wcet(l, i, response_time) ==
    Interference(l, i - 1, response_time)

\* lines 118-122
new_response_time(l, i, response_time) ==
    l[i].wcet + Interference(l, i - 1, response_time)

\* The locals of an is_scalable call.  trace[k] lists the estimates computed
\* for the k-th task examined: the initial one and then every
\* new_response_time.
IsScalableCall(pc, console, sorted_tasks, i, response_time, trace, outcome) ==
    [pc |-> pc, console |-> console, sorted_tasks |-> sorted_tasks, i |-> i,
     response_time |-> response_time, trace |-> trace, outcome |-> outcome]

Finished(console, trace, outcome) ==
    IsScalableCall("done", console, << >>, 0, 0, trace, Some(outcome))

\* lines 108-115: the response-time analysis of task i starts
StartTask(console, l, i, trace) ==
    IsScalableCall("rta", console, l, i, initial_response_time(l, i),
                   Append(trace, <<initial_response_time(l, i)>>), None)

\* console.print(...) on the console argument: None has no attribute print
PrintFails(console) == console = None

\* RMScheduler.is_scalable(tasks, console) up to the first response-time
\* iteration (lines 96-115)
RM_enter(l, console) ==
    IF l = << >> THEN Finished(console, << >>, ReturnBool(TRUE))
    ELSE LET n == Len(l)
         IN  IF FloatLe(total_utilization(l), utilization_bound(n))
             THEN Finished(console, << >>, ReturnPair(TRUE, RM_LL_SCALABILITY_MESSAGE))
             ELSE StartTask(console, sorted_by_period(l), 1, << >>)

\* lines 134-138 and the next round of the for loop, after the break
AfterBreak(A) ==
    LET task == A.sorted_tasks[A.i]
    IN  IF A.response_time > task.deadline
        THEN IF PrintFails(A.console)
             THEN Finished(A.console, A.trace, Raise("AttributeError"))
             ELSE Finished(A.console, A.trace,
                           ReturnPair(FALSE, RM_RTA_NON_SCALABILITY_MESSAGE))
        ELSE IF A.i < Len(A.sorted_tasks)
             THEN StartTask(A.console, A.sorted_tasks, A.i + 1, A.trace)
             ELSE Finished(A.console, A.trace,
                           ReturnPair(TRUE, RM_RTA_SCALABILITY_MESSAGE))

\* The iteration without "response_time = new_response_time" (line 132)
RM_iterate_keeps_estimate(A) ==
    LET task == A.sorted_tasks[A.i]
        new == new_response_time(A.sorted_tasks, A.i, A.response_time)
        trace == [A.trace EXCEPT ![Len(A.trace)] = Append(@, new)]
    IN  IF new > task.deadline
        THEN IF PrintFails(A.console)
             THEN Finished(A.console, trace, Raise("AttributeError"))
             ELSE Finished(A.console, trace,
                           ReturnPair(FALSE, RM_RTA_NON_SCALABILITY_MESSAGE))
        ELSE IF new = A.response_time
             THEN IF PrintFails(A.console)
                  THEN Finished(A.console, trace, Raise("AttributeError"))
                  ELSE AfterBreak([A EXCEPT !.trace = trace])
             ELSE [A EXCEPT !.trace = trace]

\* lines 117-132: one iteration of "while True"
RM_iterate(A) ==
    LET task == A.sorted_tasks[A.i]
        new == new_response_time(A.sorted_tasks, A.i, A.response_time)
        trace == [A.trace EXCEPT ![Len(A.trace)] = Append(@, new)]
    IN  IF new > task.deadline
        THEN IF PrintFails(A.console)
             THEN Finished(A.console, trace, Raise("AttributeError"))
             ELSE Finished(A.console, trace,
                           ReturnPair(FALSE, RM_RTA_NON_SCALABILITY_MESSAGE))
        ELSE IF new = A.response_time
             THEN IF PrintFails(A.console)
                  THEN Finished(A.console, trace, Raise("AttributeError"))
                  ELSE AfterBreak([A EXCEPT !.trace = trace])
             ELSE [A EXCEPT !.response_time = new, !.trace = trace]

\* scheduler.is_scalable(tasks, console) up to its first loop iteration
is_scalable_enter(l, console) ==
    IF algo = "EDF" THEN Finished(console, << >>, EDF_is_scalable(l))
    ELSE RM_enter(l, console)

RECURSIVE IsScalableLoop(_)
IsScalableLoop(A) == IF A.pc = "rta" THEN IsScalableLoop(RM_iterate(A)) ELSE A

\* scheduler.is_scalable(tasks, console): the finished call
is_scalable(l, console) == IsScalableLoop(is_scalable_enter(l, console))

\* cli.py validate, lines 141-152 and 169-171: the exit code of the command.
\* "is_scalable, message = ..." needs a tuple; typer.Exit(1) follows an
\* unschedulable set and every exception
validate_exit(outcome) ==
    IF outcome.kind = "pair" /\ outcome.ok THEN 0 ELSE 1

-----------------------------------------------------------------------------
(* simulator.py: Simulator.  The record S of the simulator's fields also   *)
(* holds the part of the heap that matters for sharing: the inner dicts of *)
(* task_stats are objects.  S.task_stats[n] is the content of the dict     *)
(* bound under the name n and S.stats_object[n] its identity; an object is *)
(* the pair of a name and a number.  S.referenced is the set of the dict   *)
(* objects that a result kept by the caller refers to, and S.unbound holds *)
(* the content of those among them that task_stats no longer binds.        *)

ZeroStats == [completed |-> 0, missed |-> 0, total_lateness |-> 0]

TaskNameSet == {tasks[i].name : i \in DOMAIN tasks}

\* Simulator.__init__ together with Scheduler.__init__
NewSimulator ==
    [current_time |-> 0, job_counter |-> 0, completed_jobs |-> 0,
     missed_deadlines |-> 0, total_lateness |-> 0,
     task_stats |-> [n \in TaskNameSet |-> ZeroStats],
     timeline |-> << >>,
     ready_queue |-> << >>, counter |-> 0,
     jobs |-> << >>,
     stats_object |-> [n \in TaskNameSet |-> 0],
     referenced |-> {}, unbound |-> << >>]

\* The Job objects alive, indexed by job_id, extended by a new one
NewJobObject(jobs, job) ==
    [i \in (DOMAIN jobs) \cup {job.job_id} |->
        IF i = job.job_id THEN job ELSE jobs[i]]

\* _reset without the zeroing of the counts and of the per-task statistics
reset_keeps_statistics(S) ==
    LET S1 == clear([S EXCEPT !.current_time = 0, !.job_counter = 0,
                              !.timeline = << >>])
    IN  [S1 EXCEPT !.jobs = << >>]

\* The dict bound so far under the name n, in place of a new one
NewDict_same_object(S, n) == S.stats_object[n]

\* lines 306-310: the identity of the dict that the display {...} creates
\* for the name n: an object that nothing refers to (the first such number)
NewDict(S, n) ==
    CHOOSE g \in 0..Cardinality(S.referenced) :
        /\ <<n, g>> \notin S.referenced
        /\ \A h \in 0..(g - 1) : <<n, h>> \in S.referenced

\* The content of the dicts that a rebinding of every name of task_stats
\* leaves unbound and that are still referred to
Unbound(S) ==
    LET left == {<<n, S.stats_object[n]>> : n \in DOMAIN S.task_stats}
                    \cap S.referenced
    IN  IF left = {} THEN S.unbound
        ELSE [o \in (DOMAIN S.unbound) \cup left |->
                 IF o \in left THEN S.task_stats[o[1]] ELSE S.unbound[o]]

\* Simulator._reset().  The Job objects of the earlier run are no longer
\* referenced once the ready queue is cleared.  Every name of task_stats is
\* bound to a new dict (lines 305-310).
reset(S) ==
    LET S1 == clear([S EXCEPT !.current_time = 0, !.job_counter = 0,
                              !.completed_jobs = 0, !.missed_deadlines = 0,
                              !.total_lateness = 0, !.timeline = << >>])
    IN  [S1 EXCEPT !.task_stats = [n \in DOMAIN S.task_stats |-> ZeroStats],
                   !.stats_object = [n \in DOMAIN S.task_stats |-> NewDict(S, n)],
                   !.unbound = Unbound(S),
                   !.jobs = << >>]

\* The creation of a Job with the period in place of the relative deadline
ReleaseJob_deadline_from_period(S, task) ==
    LET job == Job(task, S.current_time, task.wcet,
                   S.current_time + task.period, S.job_counter)
        S1 == [S EXCEPT !.jobs = NewJobObject(@, job), !.job_counter = @ + 1]
    IN  add_job(S1, job.job_id)

\* The creation of a Job at the current time and its admission, as
\* _release_jobs (lines 315-323) and _handle_job_release_event (256-264) do it.
ReleaseJob(S, task) ==
    LET job == Job(task, S.current_time, task.wcet,
                   S.current_time + task.deadline, S.job_counter)
        S1 == [S EXCEPT !.jobs = NewJobObject(@, job), !.job_counter = @ + 1]
    IN  add_job(S1, job.job_id)

RECURSIVE ReleaseLoop(_, _)
ReleaseLoop(S, i) ==
    IF i > Len(tasks) THEN S
    ELSE IF S.current_time % tasks[i].period = 0
         THEN ReleaseLoop(ReleaseJob(S, tasks[i]), i + 1)
         ELSE ReleaseLoop(S, i + 1)

\* Simulator._release_jobs()
release_jobs(S) == ReleaseLoop(S, 1)

\* _complete_job without the count of the miss in the task's statistics
complete_job_without_task_miss(S, id) ==
    LET job == S.jobs[id]
        completion_time == S.current_time
        lateness == Max(0, completion_time - job.absolute_deadline)
        name == job.task.name
        S1 == [S EXCEPT !.completed_jobs = @ + 1,
                        !.task_stats[name].completed = @ + 1]
    IN  IF lateness > 0
        THEN [S1 EXCEPT !.missed_deadlines = @ + 1,
                        !.total_lateness = @ + lateness,
                        !.task_stats[name].total_lateness = @ + lateness]
        ELSE S1

\* Simulator._complete_job(job)
complete_job(S, id) ==
    LET job == S.jobs[id]
        completion_time == S.current_time
        lateness == Max(0, completion_time - job.absolute_deadline)
        name == job.task.name
        S1 == [S EXCEPT !.completed_jobs = @ + 1,
                        !.task_stats[name].completed = @ + 1]
    IN  IF lateness > 0
        THEN [S1 EXCEPT !.missed_deadlines = @ + 1,
                        !.total_lateness = @ + lateness,
                        !.task_stats[name].missed = @ + 1,
                        !.task_stats[name].total_lateness = @ + lateness]
        ELSE S1

\* _should_preempt with ">" for "<"
should_preempt_reversed(S, current, new) ==
    LET current_priority == get_priority(S.jobs[current])
        new_priority == get_priority(S.jobs[new])
    IN  new_priority > current_priority

\* _should_preempt with "<=" for "<"
should_preempt_on_equal(S, current, new) ==
    LET current_priority == get_priority(S.jobs[current])
        new_priority == get_priority(S.jobs[new])
    IN  new_priority <= current_priority

\* Simulator._should_preempt(current_job, new_job)
should_preempt(S, current, new) ==
    LET current_priority == get_priority(S.jobs[current])
        new_priority == get_priority(S.jobs[new])
    IN  new_priority < current_priority

\* SimulationResult(...) as run and run_event_driven build it.  The copy of
\* task_stats is a new outer dict that refers to the same inner dicts
\* (stats_objects; task_stats is their content at the return); the copy of
\* the timeline is a new list of immutable tuples.
MakeResult(S, horizon) ==
    [algorithm |-> SchedulerName, total_time |-> horizon,
     completed_jobs |-> S.completed_jobs,
     missed_deadlines |-> S.missed_deadlines,
     total_lateness |-> S.total_lateness,
     task_stats |-> S.task_stats,
     stats_objects |-> S.stats_object,
     timeline |-> S.timeline]

\* The fields of the SimulationResult r as a caller reads them while the
\* simulator is in state S: the inner dicts are read through r's references
ReadResult(S, r) ==
    [r EXCEPT !.task_stats =
        [n \in DOMAIN r.task_stats |->
            IF S.stats_object[n] = r.stats_objects[n]
            THEN S.task_stats[n]
            ELSE S.unbound[<<n, r.stats_objects[n]>>]]]

\* SimulationResult.success_rate
success_rate(r) ==
    IF r.completed_jobs = 0 THEN FloatZero
    ELSE FloatTimes(FloatDiv(r.completed_jobs - r.missed_deadlines,
                             r.completed_jobs), 100)

-----------------------------------------------------------------------------
(* Simulator.run: the tick-driven engine.  P is the pair of the simulator  *)
(* S and the local current_job cur (None or a job id).                     *)

Pair(S, cur) == [S |-> S, cur |-> cur]

\* The completion phase that finalizes the occupant and keeps it
CompletionPhase_keeps_occupant(P) ==
    IF IsSome(P.cur) /\ is_finished(P.S.jobs[The(P.cur)])
    THEN Pair(complete_job(P.S, The(P.cur)), P.cur)
    ELSE P

\* lines 81-83: finalize a finished occupant
CompletionPhase(P) ==
    IF IsSome(P.cur) /\ is_finished(P.S.jobs[The(P.cur)])
    THEN Pair(complete_job(P.S, The(P.cur)), None)
    ELSE P

\* The preemption phase without the test of the preemptive flag
PreemptionPhase_in_every_mode(P, preemptive) ==
    IF IsSome(P.cur) /\ has_jobs(P.S)
    THEN LET g == get_next_job(P.S)
             next_job == g.job
         IN  IF IsSome(next_job) /\ should_preempt(g.S, The(P.cur), The(next_job))
             THEN Pair(add_job(g.S, The(P.cur)), next_job)
             ELSE IF IsSome(next_job)
                  THEN Pair(add_job(g.S, The(next_job)), P.cur)
                  ELSE Pair(g.S, P.cur)
    ELSE P

\* lines 85-96: the preemption phase of a tick
PreemptionPhase(P, preemptive) ==
    IF preemptive /\ IsSome(P.cur) /\ has_jobs(P.S)
    THEN LET g == get_next_job(P.S)
             next_job == g.job
         IN  IF IsSome(next_job) /\ should_preempt(g.S, The(P.cur), The(next_job))
             THEN Pair(add_job(g.S, The(P.cur)), next_job)
             ELSE IF IsSome(next_job)
                  THEN Pair(add_job(g.S, The(next_job)), P.cur)
                  ELSE Pair(g.S, P.cur)
    ELSE P

\* The dispatch phase that leaves a free processor free
DispatchPhase_skipped(P) == P

\* lines 98-99: dispatch when the processor is free
DispatchPhase(P) ==
    IF ~IsSome(P.cur)
    THEN LET g == get_next_job(P.S) IN Pair(g.S, g.job)
    ELSE P

\* lines 101-113: one unit of execution and the timeline entry
ExecutePhase(P, time) ==
    IF IsSome(P.cur)
    THEN LET id == The(P.cur)
             S1 == [P.S EXCEPT !.jobs[id].remaining = @ - 1]
         IN  Pair([S1 EXCEPT !.timeline =
                       Append(@, <<time, Some(S1.jobs[id].task.name)>>)],
                  P.cur)
    ELSE Pair([P.S EXCEPT !.timeline = Append(@, <<time, None>>)], P.cur)

\* The locals of a call
Locals(pc, horizon, preemptive, current_job, time, event_queue, last_time) ==
    [pc |-> pc, horizon |-> horizon, preemptive |-> preemptive,
     current_job |-> current_job, time |-> time,
     event_queue |-> event_queue, last_time |-> last_time]

NoCall == Locals("idle", 0, TRUE, None, 0, << >>, 0)

Machine(S, C) == [sim |-> S, call |-> C]

\* lines 65-74: the entry of run
RunEnter(S, horizon, preemptive) ==
    Machine(reset(S), Locals("run", horizon, preemptive, None, 0, << >>, 0))

\* lines 76-113: one iteration of "for time in range(horizon)"
RunTick(M) ==
    LET time == M.call.time
        P0 == Pair(release_jobs([M.sim EXCEPT !.current_time = time]),
                   M.call.current_job)
        P1 == CompletionPhase(P0)
        P2 == PreemptionPhase(P1, M.call.preemptive)
        P3 == DispatchPhase(P2)
        P4 == ExecutePhase(P3, time)
    IN  Machine(P4.S, [M.call EXCEPT !.current_job = P4.cur, !.time = time + 1])

\* lines 115-117: the occupant left unfinished at the horizon is finalized
RunFinalize(S, cur) ==
    IF IsSome(cur) /\ ~is_finished(S.jobs[The(cur)])
    THEN complete_job(S, The(cur))
    ELSE S

\* lines 115-132: the exit of run; the machine left and the result returned
RunExit(M) ==
    LET S == RunFinalize(M.sim, M.call.current_job)
    IN  [M |-> Machine(S, [M.call EXCEPT !.pc = "idle"]),
         result |-> MakeResult(S, M.call.horizon)]

-----------------------------------------------------------------------------
(* Simulator.run_event_driven: the event-driven engine.  E is the triple   *)
(* of the simulator S, the local current_job cur and the local event_queue *)
(* eq.                                                                     *)

Triple(S, cur, eq) == [S |-> S, cur |-> cur, eq |-> eq]

\* Job.__eq__ (dataclass): two Job objects are equal when their fields are
JobEq(S, a, b) == S.jobs[a] = S.jobs[b]

RECURSIVE SeedLoop(_, _)
SeedLoop(eq, i) ==
    IF i > Len(tasks) THEN eq
    ELSE SeedLoop(heappush(eq, Event(0, JOB_RELEASE, Some(tasks[i]), None)), i + 1)

\* lines 150-152: one RELEASE event per task at time 0
SeedReleases == SeedLoop(<< >>, 1)

\* lines 137-152: the entry of run_event_driven
EventEnter(S, horizon, preemptive) ==
    Machine(reset(S),
            Locals("event", horizon, preemptive, None, 0, SeedReleases, 0))

\* the timeline entries (t, name) for t in range(from, to)
Fill(from, to, name) == [k \in 1..(to - from) |-> <<from + k - 1, name>>]

\* The time advance that takes one unit from the occupant whatever the
\* time elapsed
Advance_by_one_unit(S, cur, last_time, current_time) ==
    IF IsSome(cur) /\ last_time < current_time
    THEN LET id == The(cur)
             S1 == [S EXCEPT !.jobs[id].remaining = @ - 1]
         IN  [S1 EXCEPT !.timeline =
                  @ \o Fill(last_time, current_time, Some(S1.jobs[id].task.name))]
    ELSE IF last_time < current_time
         THEN [S EXCEPT !.timeline = @ \o Fill(last_time, current_time, None)]
         ELSE S

\* lines 158-174: the occupant executes, or the processor idles, from
\* last_time to the time of the event
Advance(S, cur, last_time, current_time) ==
    IF IsSome(cur) /\ last_time < current_time
    THEN LET id == The(cur)
             execution_time == current_time - last_time
             S1 == [S EXCEPT !.jobs[id].remaining = @ - execution_time]
         IN  [S1 EXCEPT !.timeline =
                  @ \o Fill(last_time, current_time, Some(S1.jobs[id].task.name))]
    ELSE IF last_time < current_time
         THEN [S EXCEPT !.timeline = @ \o Fill(last_time, current_time, None)]
         ELSE S

\* Simulator._schedule_completion_event(job, event_queue, current_time)
schedule_completion_event(S, id, eq, current_time) ==
    LET completion_time == current_time + S.jobs[id].remaining
    IN  heappush(eq, Event(completion_time, JOB_COMPLETION, None, Some(id)))

\* _remove_completion_events that removes nothing
remove_completion_events_removes_none(S, id, eq) == heapify(eq)

\* Simulator._remove_completion_events(job, event_queue)
remove_completion_events(S, id, eq) ==
    LET Keep(event) == ~(/\ event.event_type = JOB_COMPLETION
                         /\ JobEq(S, The(event.job), id))
    IN  heapify(SelectSeq(eq, Keep))

\* _handle_job_release_event that schedules the next RELEASE at the current
\* time
handle_job_release_event_at_same_time(S, event, eq, horizon) ==
    LET task == The(event.task)
        S1 == ReleaseJob(S, task)
        next_release_time == S.current_time
    IN  [S |-> S1,
         eq |-> IF next_release_time < horizon
                THEN heappush(eq, Event(next_release_time, JOB_RELEASE,
                                        Some(task), None))
                ELSE eq]

\* Simulator._handle_job_release_event(event, event_queue, horizon)
handle_job_release_event(S, event, eq, horizon) ==
    LET task == The(event.task)
        S1 == ReleaseJob(S, task)
        next_release_time == S.current_time + task.period
    IN  [S |-> S1,
         eq |-> IF next_release_time < horizon
                THEN heappush(eq, Event(next_release_time, JOB_RELEASE,
                                        Some(task), None))
                ELSE eq]

\* lines 215-220 and 197-202: the processor is free; dispatch the best
\* pending job, if any, and schedule its COMPLETION event
DispatchEvent(E, current_time) ==
    IF has_jobs(E.S)
    THEN LET g == get_next_job(E.S)
         IN  IF IsSome(g.job)
             THEN Triple(g.S, g.job,
                         schedule_completion_event(g.S, The(g.job), E.eq,
                                                   current_time))
             ELSE Triple(g.S, g.job, E.eq)
    ELSE E

\* lines 178-202: a RELEASE event
OnRelease(E, event, horizon, preemptive, current_time) ==
    LET h == handle_job_release_event(E.S, event, E.eq, horizon)
        S1 == h.S
        eq1 == h.eq
    IN  IF preemptive /\ IsSome(E.cur) /\ has_jobs(S1)
        THEN LET g == get_next_job(S1)
                 next_job == g.job
             IN  IF IsSome(next_job)
                    /\ should_preempt(g.S, The(E.cur), The(next_job))
                 THEN LET eq2 == remove_completion_events(g.S, The(E.cur), eq1)
                          S2 == add_job(g.S, The(E.cur))
                      IN  Triple(S2, next_job,
                                 schedule_completion_event(S2, The(next_job),
                                                           eq2, current_time))
                 ELSE IF IsSome(next_job)
                      THEN Triple(add_job(g.S, The(next_job)), E.cur, eq1)
                      ELSE Triple(g.S, E.cur, eq1)
        ELSE IF ~IsSome(E.cur) /\ has_jobs(S1)
             THEN DispatchEvent(Triple(S1, E.cur, eq1), current_time)
             ELSE Triple(S1, E.cur, eq1)

\* lines 204-220: a COMPLETION event
OnCompletion(E, event, current_time) ==
    IF /\ IsSome(E.cur)
       /\ JobEq(E.S, The(E.cur), The(event.job))
       /\ E.S.jobs[The(E.cur)].remaining <= 0
    THEN DispatchEvent(Triple(complete_job(E.S, The(E.cur)), None, E.eq),
                       current_time)
    ELSE E

\* line 154: the condition of the event loop
EventLoopCondition(C) ==
    C.event_queue # << >> /\ C.event_queue[1].time < C.horizon

\* lines 155-222: one iteration of the event loop
RunEvent(M) ==
    LET p == heappop(M.call.event_queue)
        event == p.item
        current_time == event.time
        S0 == Advance(M.sim, M.call.current_job, M.call.last_time, current_time)
        S1 == [S0 EXCEPT !.current_time = current_time]
        E0 == Triple(S1, M.call.current_job, p.heap)
        E1 == IF event.event_type = JOB_RELEASE
              THEN OnRelease(E0, event, M.call.horizon, M.call.preemptive,
                             current_time)
              ELSE OnCompletion(E0, event, current_time)
    IN  Machine(E1.S, [M.call EXCEPT !.current_job = E1.cur,
                                     !.event_queue = E1.eq,
                                     !.time = current_time,
                                     !.last_time = current_time])

\* The end of run_event_driven without the idle entries of lines 233-235
EventFinalize_without_idle_entries(S, cur, last_time, horizon) ==
    IF IsSome(cur) /\ last_time < horizon
    THEN LET S1 == Advance(S, cur, last_time, horizon)
         IN  IF S1.jobs[The(cur)].remaining <= 0
             THEN complete_job(S1, The(cur))
             ELSE S1
    ELSE S

\* lines 224-235: after the loop the occupant runs on to the horizon
EventFinalize(S, cur, last_time, horizon) ==
    IF IsSome(cur) /\ last_time < horizon
    THEN LET S1 == Advance(S, cur, last_time, horizon)
         IN  IF S1.jobs[The(cur)].remaining <= 0
             THEN complete_job(S1, The(cur))
             ELSE S1
    ELSE IF last_time < horizon
         THEN [S EXCEPT !.timeline = @ \o Fill(last_time, horizon, None)]
         ELSE S

\* lines 224-250: the exit of run_event_driven
EventExit(M) ==
    LET S == EventFinalize(M.sim, M.call.current_job, M.call.last_time,
                           M.call.horizon)
    IN  [M |-> Machine(S, [M.call EXCEPT !.pc = "idle"]),
         result |-> MakeResult(S, M.call.horizon)]

-----------------------------------------------------------------------------
(* A whole call as a function of the simulator it is made on.              *)

RECURSIVE RunLoop(_)
RunLoop(M) ==
    IF M.call.time < M.call.horizon THEN RunLoop(RunTick(M)) ELSE RunExit(M)

\* Simulator.run(horizon, preemptive) on a simulator in state S
run(S, horizon, preemptive) == RunLoop(RunEnter(S, horizon, preemptive)).result

RECURSIVE EventLoop(_)
EventLoop(M) ==
    IF EventLoopCondition(M.call) THEN EventLoop(RunEvent(M)) ELSE EventExit(M)

\* Simulator.run_event_driven(horizon, preemptive) on a simulator in state S
run_event_driven(S, horizon, preemptive) ==
    EventLoop(EventEnter(S, horizon, preemptive)).result

-----------------------------------------------------------------------------
(* The task sets and the calls of the model.                               *)

\* gantt_example.py, create_example_tasks (Example A of the specification)
ExampleA ==
    << Task("T1", 1, 4, 4), Task("T2", 2, 5, 5), Task("T3", 1, 10, 10) >>

\* gantt_example.py: result = simulator.run(horizon=50, preemptive=True)
ExampleHorizon == 50

\* Two tasks that load the processor fully (2/4 + 3/6 = 1) and that fixed
\* priorities cannot schedule; they are run over their hyperperiod
TightPair == << Task("T1", 2, 4, 4), Task("T2", 3, 6, 6) >>

TightHorizon == 12

\* Three tasks of one period that load the processor fully and that the
\* response-time analysis accepts (estimates 2; 3, 3; 4, 4)
TiedPeriods ==
    << Task("T1", 2, 4, 4), Task("T2", 1, 4, 3), Task("T3", 1, 4, 4) >>

TiedHorizon == 5

\* The tasks named name that Task.__post_init__ accepts, within the bounds
ValidTasks(name) ==
    { Task(name, x[1], x[2], x[3]) :
        x \in { y \in (1..MaxWcet) \X (1..MaxPeriod) \X (1..MaxPeriod) :
                   TaskValid(y[1], y[2], y[3]) } }

RECURSIVE TaskLists(_)
TaskLists(n) ==
    IF n = 0 THEN { << >> }
    ELSE { Append(l, t) : l \in TaskLists(n - 1), t \in ValidTasks(TaskNames[n]) }

TaskSets ==
    UNION { TaskLists(n) : n \in 0..Len(TaskNames) }
        \cup { ExampleA, TightPair, TiedPeriods }

\* The horizons of the calls; the horizon 0 is drawn for the task lists of
\* at most one task
Horizons ==
    IF tasks = ExampleA THEN {ExampleHorizon}
    ELSE IF tasks = TightPair THEN {TightHorizon}
    ELSE IF tasks = TiedPeriods THEN {TiedHorizon}
    ELSE IF Len(tasks) <= 1 THEN 0..MaxHorizon
    ELSE 1..MaxHorizon

-----------------------------------------------------------------------------
(* The simulator as a state machine: a caller constructs a Simulator and   *)
(* calls run and run_event_driven on it, one call after the other.         *)

Returned(engine, preemptive, value) ==
    [engine |-> engine, preemptive |-> preemptive, value |-> value]

Init ==
    /\ tasks \in TaskSets
    /\ algo \in {"EDF", "RM"}
    /\ sim = NewSimulator
    /\ call = NoCall
    /\ result = None
    /\ previous = None
    /\ analysis = None

CallRun ==
    /\ call.pc = "idle"
    /\ \E horizon \in Horizons, preemptive \in BOOLEAN :
          LET M == RunEnter(sim, horizon, preemptive)
          IN  sim' = M.sim /\ call' = M.call
    /\ result' = None
    /\ previous' = IF result = None THEN None ELSE Some(The(result).engine)
    /\ UNCHANGED <<tasks, algo, analysis>>

Tick ==
    /\ call.pc = "run"
    /\ call.time < call.horizon
    /\ LET M == RunTick(Machine(sim, call))
       IN  sim' = M.sim /\ call' = M.call
    /\ UNCHANGED <<tasks, algo, result, previous, analysis>>

ReturnRun ==
    /\ call.pc = "run"
    /\ ~(call.time < call.horizon)
    /\ LET X == RunExit(Machine(sim, call))
       IN  /\ sim' = X.M.sim
           /\ call' = X.M.call
           /\ result' = Some(Returned("run", call.preemptive, X.result))
    /\ UNCHANGED <<tasks, algo, previous, analysis>>

CallRunEventDriven ==
    /\ call.pc = "idle"
    /\ \E horizon \in Horizons, preemptive \in BOOLEAN :
          LET M == EventEnter(sim, horizon, preemptive)
          IN  sim' = M.sim /\ call' = M.call
    /\ result' = None
    /\ previous' = IF result = None THEN None ELSE Some(The(result).engine)
    /\ UNCHANGED <<tasks, algo, analysis>>

HandleEvent ==
    /\ call.pc = "event"
    /\ EventLoopCondition(call)
    /\ LET M == RunEvent(Machine(sim, call))
       IN  sim' = M.sim /\ call' = M.call
    /\ UNCHANGED <<tasks, algo, result, previous, analysis>>

ReturnRunEventDriven ==
    /\ call.pc = "event"
    /\ ~EventLoopCondition(call)
    /\ LET X == EventExit(Machine(sim, call))
       IN  /\ sim' = X.M.sim
           /\ call' = X.M.call
           /\ result' = Some(Returned("run_event_driven", call.preemptive, X.result))
    /\ UNCHANGED <<tasks, algo, previous, analysis>>

Next ==
    \/ CallRun
    \/ Tick
    \/ ReturnRun
    \/ CallRunEventDriven
    \/ HandleEvent
    \/ ReturnRunEventDriven

Spec == Init /\ [][Next]_vars

-----------------------------------------------------------------------------
(* The schedulability analysis as a state machine: is_scalable is called   *)
(* on a task list, without a console (as the validate command calls it) or *)
(* with one, and the response-time analysis runs one iteration at a time.  *)

\* Example C of the specification
ExampleC ==
    << Task("T1", 3, 10, 8), Task("T2", 2, 8, 6), Task("T3", 4, 15, 12),
       Task("T4", 1, 5, 4) >>

\* A task set of utilization 9/14 + 9/28 + 1/28 = 1
FullLoad ==
    << Task("T1", 9, 14, 14), Task("T2", 9, 28, 28), Task("T3", 1, 28, 28) >>

\* A task set of utilization 1 + 1/(261983 * 262007 * 262051)
Overload ==
    << Task("T1", 231322, 261983, 261983), Task("T2", 17616, 262007, 262007),
       Task("T3", 13050, 262051, 262051) >>

\* A task set whose utilization exceeds 2 * (2 ** (1 / 2) - 1) by less than
\* 10 ** -16, and whose task T1 cannot finish before 215890 > 200000
NearBound ==
    << Task("T1", 116323, 261847, 200000), Task("T2", 99567, 259163, 259163) >>

\* A task set whose last task takes three increasing steps to converge
SlowConvergence ==
    << Task("T1", 3, 7, 7), Task("T2", 3, 12, 12), Task("T3", 5, 20, 20) >>

AnalysisTaskSets ==
    TaskSets \cup { ExampleC, FullLoad, Overload, NearBound, SlowConvergence }

Consoles == { None, Some("Console") }

InitAnalysis ==
    /\ tasks \in AnalysisTaskSets
    /\ algo \in {"EDF", "RM"}
    /\ sim = NewSimulator
    /\ call = NoCall
    /\ result = None
    /\ previous = None
    /\ analysis = None

CallIsScalable ==
    /\ analysis = None
    /\ \E console \in Consoles : analysis' = Some(is_scalable_enter(tasks, console))
    /\ UNCHANGED <<tasks, algo, sim, call, result, previous>>

RtaIterate ==
    /\ analysis # None
    /\ The(analysis).pc = "rta"
    /\ analysis' = Some(RM_iterate(The(analysis)))
    /\ UNCHANGED <<tasks, algo, sim, call, result, previous>>

NextAnalysis ==
    \/ CallIsScalable
    \/ RtaIterate

SpecAnalysis == InitAnalysis /\ [][NextAnalysis]_vars

\* A call that has started runs on: the program is sequential
FairAnalysis == SpecAnalysis /\ WF_vars(RtaIterate)


-----------------------------------------------------------------------------
(* Exact arithmetic for the reference statements: a natural number of any  *)
(* size is the sequence of its digits in base 2 ** 13, the least           *)
(* significant first, without leading zeros.                               *)

Base == 2 ^ 13

RECURSIVE BigOf(_)
BigOf(n) == IF n = 0 THEN << >> ELSE <<n % Base>> \o BigOf(n \div Base)

RECURSIVE BigAddCarry(_, _, _)
BigAddCarry(a, b, c) ==
    IF a = << >> /\ b = << >> THEN BigOf(c)
    ELSE LET x == IF a = << >> THEN 0 ELSE Head(a)
             y == IF b = << >> THEN 0 ELSE Head(b)
             s == x + y + c
         IN  <<s % Base>> \o BigAddCarry(IF a = << >> THEN a ELSE Tail(a),
                                         IF b = << >> THEN b ELSE Tail(b),
                                         s \div Base)

BigAdd(a, b) == BigAddCarry(a, b, 0)

RECURSIVE BigTimesCarry(_, _, _)
\* a * m + c for an integer m in 1 .. 2 ** 18 - 1
BigTimesCarry(a, m, c) ==
    IF a = << >> THEN BigOf(c)
    ELSE <<(Head(a) * m + c) % Base>>
         \o BigTimesCarry(Tail(a), m, (Head(a) * m + c) \div Base)

BigTimes(a, m) == BigTimesCarry(a, m, 0)

BigShift(a) == IF a = << >> THEN a ELSE <<0>> \o a

RECURSIVE BigMul(_, _)
BigMul(a, b) ==
    IF b = << >> \/ a = << >> THEN << >>
    ELSE BigAdd(IF Head(b) = 0 THEN << >> ELSE BigTimes(a, Head(b)),
                BigShift(BigMul(a, Tail(b))))

RECURSIVE BigPow(_, _)
BigPow(a, n) == IF n = 0 THEN BigOf(1) ELSE BigMul(BigPow(a, n - 1), a)

RECURSIVE BigLeFrom(_, _, _)
BigLeFrom(a, b, i) ==
    IF i = 0 THEN TRUE
    ELSE IF a[i] # b[i] THEN a[i] < b[i]
    ELSE BigLeFrom(a, b, i - 1)

BigLe(a, b) ==
    IF Len(a) # Len(b) THEN Len(a) < Len(b) ELSE BigLeFrom(a, b, Len(a))

RECURSIVE PeriodProduct(_, _, _)
\* The product of the periods of l[i], l[i + 1], ..., that of l[k] left out
PeriodProduct(l, k, i) ==
    IF i > Len(l) THEN BigOf(1)
    ELSE IF i = k THEN PeriodProduct(l, k, i + 1)
    ELSE BigTimes(PeriodProduct(l, k, i + 1), l[i].period)

RECURSIVE UtilizationNumeratorFrom(_, _)
UtilizationNumeratorFrom(l, k) ==
    IF k > Len(l) THEN << >>
    ELSE BigAdd(BigTimes(PeriodProduct(l, k, 1), l[k].wcet),
                UtilizationNumeratorFrom(l, k + 1))

\* The utilization of l, the sum of wcet / period, is the fraction
\* UtilizationNumerator(l) / UtilizationDenominator(l)
UtilizationNumerator(l) == UtilizationNumeratorFrom(l, 1)
UtilizationDenominator(l) == PeriodProduct(l, 0, 1)

\* U <= 1
UtilizationAtMostOne(l) ==
    BigLe(UtilizationNumerator(l), UtilizationDenominator(l))

\* U <= n * (2 ^ (1 / n) - 1), that is (1 + U / n) ^ n <= 2, for n >= 1
WithinLiuLayland(l) ==
    LET n == Len(l)
        nD == BigTimes(UtilizationDenominator(l), n)
    IN  BigLe(BigPow(BigAdd(nD, UtilizationNumerator(l)), n),
              BigTimes(BigPow(nD, n), 2))

\* Response-time analysis: the task i of l, sorted by period, has a response
\* time R = wcet_i + sum over the tasks j before it of ceil(R / period_j) *
\* wcet_j that is at most its deadline.  Every solution is at least
\* initial_response_time(l, i).
ResponseTimeWithinDeadline(l, i) ==
    \E R \in initial_response_time(l, i)..l[i].deadline :
        R = new_response_time(l, i, R)

\* The positions, in the order of the periods, of the tasks that response-
\* time analysis rejects
RejectedByAnalysis(l) ==
    { i \in 1..Len(l) : ~ResponseTimeWithinDeadline(sorted_by_period(l), i) }

Min(S) == CHOOSE x \in S : \A y \in S : x <= y

ImplicitDeadlines(l) == \A i \in DOMAIN l : l[i].deadline = l[i].period

-----------------------------------------------------------------------------
(* The claims about the two engines, under Spec.                           *)

Ended == IsSome(result)
Value == The(result).value

\* The same call made on a freshly constructed Simulator and scheduler, by
\* the tick-driven engine
FreshRun == run(NewSimulator, Value.total_time, The(result).preemptive)

\* C1: whatever the task set, the scheduler, the horizon and the preemption
\* flag, run_event_driven returns the timeline that run returns on the same
\* inputs.
C1_SameTimeline ==
    (Ended /\ The(result).engine = "run_event_driven")
    => Value.timeline = FreshRun.timeline

\* C2: whatever the inputs, run_event_driven returns the completed-job
\* count, the missed-deadline count, the total lateness and the per-task
\* statistics that run returns on the same inputs.
C2_SameStatistics ==
    (Ended /\ The(result).engine = "run_event_driven")
    => /\ Value.completed_jobs = FreshRun.completed_jobs
       /\ Value.missed_deadlines = FreshRun.missed_deadlines
       /\ Value.total_lateness = FreshRun.total_lateness
       /\ Value.task_stats = FreshRun.task_stats

\* C3: a call of run on a Simulator that has served any earlier calls
\* returns, in every field, what the same call returns on a freshly
\* constructed Simulator and scheduler.
C3_HistoryIndependent ==
    (Ended /\ The(result).engine = "run") => Value = FreshRun

\* A run has returned jobs after an event-driven run on the same Simulator
C3_RunAfterEventDrivenRun ==
    /\ Ended
    /\ The(result).engine = "run"
    /\ previous = Some("run_event_driven")
    /\ Value.completed_jobs > 1
    /\ Len(tasks) = 2

\* C9: Example A under EDF, horizon 50, preemptive: no missed deadline, no
\* lateness, at least one completed job and a success rate of 100 (the
\* double 100.0 has exponent 6 and significand 100 * 2 ^ 46).
C9_ExampleA ==
    (/\ Ended
     /\ The(result).engine = "run"
     /\ The(result).preemptive
     /\ tasks = ExampleA
     /\ algo = "EDF"
     /\ Value.total_time = ExampleHorizon)
    => /\ Value.missed_deadlines = 0
       /\ Value.total_lateness = 0
       /\ Value.completed_jobs > 0
       /\ success_rate(Value) = Float(6, 100 * 2 ^ 20, 0)

\* The run of Example A has returned, with its 28 completed jobs
C9_ExampleARan ==
    /\ Ended
    /\ The(result).engine = "run"
    /\ The(result).preemptive
    /\ tasks = ExampleA
    /\ algo = "EDF"
    /\ Value.total_time = ExampleHorizon
    /\ Value.completed_jobs = 28

\* C10 as stated: whenever EDFScheduler.is_scalable accepts the task set
\* (deadlines at most the periods), the preemptive EDF run reports no missed
\* deadline, at every horizon.
C10_AcceptedNeverMisses ==
    (/\ Ended
     /\ The(result).engine = "run"
     /\ The(result).preemptive
     /\ algo = "EDF"
     /\ EDF_is_scalable(tasks).ok)
    => Value.missed_deadlines = 0

\* C10 amended: whenever every deadline equals its period, the utilization
\* is at most 1 and EDFScheduler.is_scalable accepts the task set, the
\* preemptive EDF run reports no missed deadline, at every horizon.
C10_ImplicitDeadlinesNeverMiss ==
    (/\ Ended
     /\ The(result).engine = "run"
     /\ The(result).preemptive
     /\ algo = "EDF"
     /\ ImplicitDeadlines(tasks)
     /\ UtilizationAtMostOne(tasks)
     /\ EDF_is_scalable(tasks).ok)
    => Value.missed_deadlines = 0

\* The preemptive EDF run of two tasks that load the processor fully has
\* returned, over their hyperperiod
C10_FullyLoadedRun ==
    /\ Ended
    /\ The(result).engine = "run"
    /\ The(result).preemptive
    /\ algo = "EDF"
    /\ tasks = TightPair
    /\ ImplicitDeadlines(tasks)
    /\ UtilizationNumerator(tasks) = UtilizationDenominator(tasks)
    /\ EDF_is_scalable(tasks).ok
    /\ Value.total_time = TightHorizon
    /\ Value.completed_jobs >= 4

-----------------------------------------------------------------------------
(* The claims about is_scalable, under SpecAnalysis and FairAnalysis.      *)

Analysed == IsSome(analysis) /\ The(analysis).pc = "done"
Outcome == The(The(analysis).outcome)
Trace == The(analysis).trace

\* C4: EDFScheduler.is_scalable returns true, with the message of the
\* accepted case, exactly when the exact utilization is at most 1, and false,
\* with the over-utilization message, exactly when it is greater than 1.
C4_ExactUtilizationTest ==
    (Analysed /\ algo = "EDF")
    => Outcome = ReturnPair(UtilizationAtMostOne(tasks),
                            IF UtilizationAtMostOne(tasks)
                            THEN EDF_SCALABILITY_MESSAGE
                            ELSE EDF_NON_SCALABILITY_MESSAGE)

\* C5: is_scalable called with the task list alone never raises: it returns
\* a (boolean, message) pair, and a set that response-time analysis rejects
\* is reported as (false, message).
C5_AlwaysReturnsPair ==
    (Analysed /\ The(analysis).console = None)
    => /\ Outcome.kind = "pair"
       /\ (algo = "RM" /\ tasks # << >> /\ ~WithinLiuLayland(tasks)
           /\ RejectedByAnalysis(tasks) # {})
          => Outcome = ReturnPair(FALSE, RM_RTA_NON_SCALABILITY_MESSAGE)

\* C6: for n >= 1 tasks, RMScheduler.is_scalable returns true with the Liu
\* and Layland message, without any response-time iteration, when the exact
\* utilization is at most n * (2 ^ (1 / n) - 1); when the utilization
\* exceeds the bound, response-time analysis runs and decides.
C6_LiuLaylandPath ==
    (Analysed /\ algo = "RM" /\ tasks # << >>)
    => IF WithinLiuLayland(tasks)
       THEN Outcome = ReturnPair(TRUE, RM_LL_SCALABILITY_MESSAGE) /\ Trace = << >>
       ELSE Trace # << >> /\ Outcome.message # RM_LL_SCALABILITY_MESSAGE

\* C7: when the utilization exceeds the Liu and Layland bound,
\* RMScheduler.is_scalable returns true iff response-time analysis accepts
\* every task, having examined them all, and returns false at the first
\* task, in the order of the periods, that the analysis rejects.
C7_AgreesWithAnalysis ==
    (Analysed /\ algo = "RM" /\ tasks # << >> /\ ~WithinLiuLayland(tasks))
    => IF RejectedByAnalysis(tasks) = {}
       THEN /\ Outcome = ReturnPair(TRUE, RM_RTA_SCALABILITY_MESSAGE)
            /\ Len(Trace) = Len(tasks)
       ELSE /\ Outcome = ReturnPair(FALSE, RM_RTA_NON_SCALABILITY_MESSAGE)
            /\ Len(Trace) = Min(RejectedByAnalysis(tasks))

\* The estimates of the k-th task examined: every iteration but the one that
\* ends the loop strictly increases the estimate and stays within the
\* deadline; a loop that has ended ended on two equal estimates or on one
\* beyond the deadline; there are at most deadline iterations.
EstimatesInOrder(k) ==
    LET t == Trace[k]
        deadline == sorted_by_period(tasks)[k].deadline
        m == Len(t)
        over == k < Len(Trace) \/ The(analysis).pc = "done"
        last == IF over THEN m - 1 ELSE m
    IN  /\ m >= 1
        /\ over => m >= 2
        /\ \A j \in 1..(last - 1) : t[j] < t[j + 1]
        /\ \A j \in 2..last : t[j] <= deadline
        /\ over => (t[m] = t[m - 1] \/ t[m] > deadline)
        /\ m - 1 <= deadline

IterationInOrder ==
    IsSome(analysis) => \A k \in DOMAIN Trace : EstimatesInOrder(k)

-----------------------------------------------------------------------------
(* The scheduler as a state machine: a caller admits jobs to a scheduler,  *)
(* selects from it and clears it, in any order.  The jobs are the first    *)
(* two jobs of every task; sim holds the scheduler's fields, result the    *)
(* value of the last get_next_job and previous the name of the last call.  *)

MaxAdmissions == 4

\* The Job objects a caller has at hand: for every task its jobs released at
\* time 0 and one period later, as ReleaseJob creates them
SchedulerJobs ==
    [id \in 0..(2 * Len(tasks) - 1) |->
        LET task == tasks[(id \div 2) + 1]
            release_time == (id % 2) * task.period
        IN  Job(task, release_time, task.wcet, release_time + task.deadline, id)]

Pending(S) == {S.ready_queue[i] : i \in DOMAIN S.ready_queue}

InitScheduler ==
    /\ tasks \in {ExampleA, TightPair}
    /\ algo \in {"EDF", "RM"}
    /\ sim = [NewSimulator EXCEPT !.jobs = SchedulerJobs]
    /\ call = NoCall
    /\ result = None
    /\ previous = None
    /\ analysis = None

AdmitJob ==
    /\ sim.counter < MaxAdmissions
    /\ \E id \in DOMAIN sim.jobs :
          /\ \A e \in Pending(sim) : e.job # id
          /\ sim' = add_job(sim, id)
    /\ result' = None
    /\ previous' = Some("add_job")
    /\ UNCHANGED <<tasks, algo, call, analysis>>

SelectJob ==
    /\ LET g == get_next_job(sim)
       IN  sim' = g.S /\ result' = g.job
    /\ previous' = Some("get_next_job")
    /\ UNCHANGED <<tasks, algo, call, analysis>>

ClearQueue ==
    /\ sim' = clear(sim)
    /\ result' = None
    /\ previous' = Some("clear")
    /\ UNCHANGED <<tasks, algo, call, analysis>>

NextScheduler ==
    \/ AdmitJob
    \/ SelectJob
    \/ ClearQueue

SpecScheduler == InitScheduler /\ [][NextScheduler]_vars

-----------------------------------------------------------------------------
(* The claims about the scheduler, under SpecScheduler.                    *)

\* e is ahead of f: a smaller priority value, or the same priority and a
\* smaller sequence number
Ahead(e, f) ==
    \/ e.priority < f.priority
    \/ e.priority = f.priority /\ e.counter < f.counter

MostUrgent(S) ==
    CHOOSE e \in Pending(S) : \A f \in Pending(S) \ {e} : Ahead(e, f)

\* The pending entries carry the priority of their job and distinct
\* sequence numbers, all below the next one to be given
SequenceNumbersDistinct ==
    /\ \A i, j \in DOMAIN sim.ready_queue :
          i # j => sim.ready_queue[i].counter # sim.ready_queue[j].counter
    /\ \A e \in Pending(sim) :
          /\ e.counter < sim.counter
          /\ e.priority = get_priority(sim.jobs[e.job])

\* An admission gives the job the next sequence number, larger than every
\* one given since the last clear
AdmissionNumbered ==
    AdmitJob =>
        /\ sim'.counter = sim.counter + 1
        /\ \E e \in Pending(sim') :
              /\ e.counter = sim.counter
              /\ Pending(sim') = Pending(sim) \cup {e}
        /\ Len(sim'.ready_queue) = Len(sim.ready_queue) + 1

SelectionInOrder ==
    SelectJob =>
        IF Pending(sim) = {}
        THEN result' = None /\ sim' = sim
        ELSE /\ \E e \in Pending(sim) : \A f \in Pending(sim) \ {e} : Ahead(e, f)
             /\ result' = Some(MostUrgent(sim).job)
             /\ Pending(sim') = Pending(sim) \ {MostUrgent(sim)}
             /\ Len(sim'.ready_queue) = Len(sim.ready_queue) - 1
             /\ sim'.counter = sim.counter

\* C11: after any sequence of add_job, get_next_job and clear, get_next_job
\* removes and returns the pending job of smallest priority value and, among
\* those of equal priority, the one admitted first; the sequence numbers are
\* distinct and increase between two clears; on an empty queue get_next_job
\* returns None and changes nothing.
C11_SelectsMostUrgentFirst ==
    /\ []SequenceNumbersDistinct
    /\ [][AdmissionNumbered]_vars
    /\ [][SelectionInOrder]_vars

\* get_next_job has returned a job while a job of the same priority admitted
\* later, and a less urgent job admitted before that one, were pending
C11_TieBrokenByAdmission ==
    /\ previous = Some("get_next_job")
    /\ IsSome(result)
    /\ \E e, f \in Pending(sim) :
          /\ e.priority = get_priority(sim.jobs[The(result)])
          /\ f.priority > e.priority
          /\ f.counter < e.counter

-----------------------------------------------------------------------------
(* The claims about the order of execution, under Spec.                    *)

\* The tick-driven engine has executed a unit: current_job is the job that
\* ran in unit time - 1 and the ready queue holds the jobs that waited
TickDone == call.pc = "run" /\ call.time > 0

\* The event-driven engine has handled every event of the instant
\* last_time: current_job is the job that runs from last_time on and the
\* ready queue holds the jobs that wait
InstantDone ==
    /\ call.pc = "event"
    /\ \/ call.event_queue = << >>
       \/ call.event_queue[1].time > call.last_time
    /\ sim.job_counter > 0

Priority(id) == get_priority(sim.jobs[id])

\* C12: in preemptive mode, in both engines, the job that executes in a time
\* unit has a priority value no larger than that of any job waiting in the
\* ready queue during that unit.
C12_MostUrgentExecutes ==
    (call.preemptive /\ (TickDone \/ InstantDone) /\ IsSome(call.current_job))
    => \A e \in Pending(sim) :
          /\ Priority(The(call.current_job)) <= Priority(e.job)
          /\ sim.jobs[e.job].remaining > 0
          /\ sim.jobs[e.job].release_time <= sim.current_time

\* In a preemptive event-driven run a job executes while a job that it
\* displaced from the processor waits with a larger priority value
C12_DisplacedJobWaits ==
    /\ call.preemptive
    /\ InstantDone
    /\ IsSome(call.current_job)
    /\ \E e \in Pending(sim) :
          /\ Priority(e.job) > Priority(The(call.current_job))
          /\ sim.jobs[e.job].remaining < sim.jobs[e.job].task.wcet

\* The units a job has executed so far
Executed(job) == job.task.wcet - job.remaining

\* The job the call has on the processor has executed the last units of the
\* timeline, as many as it has executed in all, and no more than its wcet
OccupantRanWithoutBreak ==
    IsSome(call.current_job) =>
        LET job == sim.jobs[The(call.current_job)]
            n == Len(sim.timeline)
        IN  /\ job.remaining >= 0
            /\ Executed(job) <= n
            /\ \A k \in (n - Executed(job) + 1)..n :
                  sim.timeline[k] = <<k - 1, Some(job.task.name)>>

\* C13: in non-preemptive mode, in both engines, a job that has started
\* executing occupies the processor in every consecutive time unit until it
\* has received its wcet or the horizon is reached: no job that has started
\* is in the ready queue, a started and unfinished job is the occupant, and
\* the occupant has executed without a break since it started.
C13_OccupantRunsToCompletion ==
    (~call.preemptive /\ (call.pc # "idle" \/ Ended))
    => /\ \A e \in Pending(sim) : Executed(sim.jobs[e.job]) = 0
       /\ \A id \in DOMAIN sim.jobs :
             (Executed(sim.jobs[id]) > 0 /\ sim.jobs[id].remaining > 0)
             => call.current_job = Some(id)
       /\ OccupantRanWithoutBreak

\* In a non-preemptive tick-driven run a job that started in an earlier
\* unit has executed the last unit while a job of smaller priority value
\* waited
C13_UrgentJobWaited ==
    /\ ~call.preemptive
    /\ TickDone
    /\ IsSome(call.current_job)
    /\ LET job == sim.jobs[The(call.current_job)]
       IN  /\ job.remaining <= job.task.wcet - 2
           /\ \E e \in Pending(sim) : Priority(e.job) < get_priority(job)

-----------------------------------------------------------------------------
(* The claims about the value a call returns, under Spec.                  *)

\* C14: the timeline either engine returns has exactly horizon entries, and
\* its i-th entry (from 0) carries the time i and one task name or idle.
C14_OneEntryPerTimeUnit ==
    Ended =>
        /\ Len(Value.timeline) = Value.total_time
        /\ \A i \in 1..Len(Value.timeline) :
              /\ Value.timeline[i][1] = i - 1
              /\ \/ Value.timeline[i][2] = None
                 \/ \E n \in TaskNameSet : Value.timeline[i][2] = Some(n)

\* run_event_driven has returned a timeline in which jobs executed and
\* whose last units, after the last event, are idle
C14_IdleUntilHorizon ==
    /\ Ended
    /\ The(result).engine = "run_event_driven"
    /\ Value.total_time >= 3
    /\ Len(Value.timeline) = Value.total_time
    /\ Value.timeline[1][2] # None
    /\ Value.timeline[Value.total_time - 1][2] = None
    /\ Value.timeline[Value.total_time][2] = None

-----------------------------------------------------------------------------
(* The claims about the finalization of jobs, under Spec.                  *)

\* The step finalizes job j with completion time t and nothing else
Finalized(j, t) ==
    LET job == sim.jobs[j]
        name == job.task.name
        lateness == Max(0, t - job.absolute_deadline)
        missed == IF t > job.absolute_deadline THEN 1 ELSE 0
    IN  /\ sim'.completed_jobs = sim.completed_jobs + 1
        /\ sim'.missed_deadlines = sim.missed_deadlines + missed
        /\ sim'.total_lateness = sim.total_lateness + lateness
        /\ sim'.task_stats =
              [sim.task_stats EXCEPT
                  ![name] = [completed |-> @.completed + 1,
                             missed |-> @.missed + missed,
                             total_lateness |-> @.total_lateness + lateness]]

\* In run the occupant has received its last unit in unit time - 1: the
\* next step, a tick or the return, finalizes it with completion time time
FinalizedByRun ==
    (/\ call.pc = "run"
     /\ IsSome(call.current_job)
     /\ sim.jobs[The(call.current_job)].remaining = 0)
    => Finalized(The(call.current_job), call.time)

\* In run_event_driven the occupant receives its last unit in unit t - 1,
\* where t is last_time plus its remaining time: the step that takes the
\* run to time t, an event of time t or the return at horizon t, finalizes
\* it with completion time t
FinalizedByRunEventDriven ==
    (/\ call.pc = "event"
     /\ IsSome(call.current_job)
     /\ LET t == call.last_time + sim.jobs[The(call.current_job)].remaining
        IN  \/ call'.pc = "event" /\ call'.last_time = t
            \/ call'.pc = "idle" /\ call.horizon = t)
    => Finalized(The(call.current_job),
                 call.last_time + sim.jobs[The(call.current_job)].remaining)

\* C15: a job that receives its last unit of execution in time unit t - 1 is
\* finalized with completion time t: completed_jobs and its task's completed
\* count increase by one, it is counted as missed iff t exceeds its absolute
\* deadline, and then t - absolute_deadline is added to the total lateness
\* and to its task's lateness.
C15_FinalizedAtCompletionTime ==
    [][FinalizedByRun /\ FinalizedByRunEventDriven]_vars

-----------------------------------------------------------------------------
(* The construction of tasks as a state machine: a caller calls            *)
(* Task(name, wcet, period, deadline) with any integers and collects the   *)
(* tasks constructed in the list tasks; previous holds the arguments of    *)
(* the last call and result the exception it raised, if any.               *)

\* Task.__post_init__ with ">=" for ">" in the last test
Task_post_init_rejecting_equal_deadline(wcet, period, deadline) ==
    IF wcet <= 0 THEN Some("ValueError: WCET must be positive")
    ELSE IF period <= 0 THEN Some("ValueError: Period must be positive")
    ELSE IF deadline <= 0 THEN Some("ValueError: Deadline must be positive")
    ELSE IF deadline >= period
         THEN Some("ValueError: Deadline cannot exceed period")
    ELSE None

\* Task.__post_init__: the exception raised, or None
Task_post_init(wcet, period, deadline) ==
    IF wcet <= 0 THEN Some("ValueError: WCET must be positive")
    ELSE IF period <= 0 THEN Some("ValueError: Period must be positive")
    ELSE IF deadline <= 0 THEN Some("ValueError: Deadline must be positive")
    ELSE IF deadline > period
         THEN Some("ValueError: Deadline cannot exceed period")
    ELSE None

\* The integers a caller passes for wcet and for period and deadline
WcetArguments == (0 - 1)..(MaxWcet + 1)
PeriodArguments == (0 - 1)..(MaxPeriod + 1)

InitConstruction ==
    /\ tasks = << >>
    /\ algo \in {"EDF", "RM"}
    /\ sim = NewSimulator
    /\ call = NoCall
    /\ result = None
    /\ previous = None
    /\ analysis = None

ConstructTask ==
    /\ Len(tasks) < Len(TaskNames)
    /\ \E wcet \in WcetArguments, period \in PeriodArguments,
          deadline \in PeriodArguments :
          LET name == TaskNames[Len(tasks) + 1]
              error == Task_post_init(wcet, period, deadline)
          IN  /\ previous' = Some(Task(name, wcet, period, deadline))
              /\ result' = error
              /\ tasks' = IF IsSome(error) THEN tasks
                          ELSE Append(tasks, Task(name, wcet, period, deadline))
    /\ UNCHANGED <<algo, sim, call, analysis>>

DiscardTasks ==
    /\ tasks # << >>
    /\ tasks' = << >>
    /\ result' = None
    /\ previous' = None
    /\ UNCHANGED <<algo, sim, call, analysis>>

NextConstruction ==
    \/ ConstructTask
    \/ DiscardTasks

SpecConstruction == InitConstruction /\ [][NextConstruction]_vars

\* The list holds tasks that satisfy the four constraints: it is a task
\* list a Simulator can be given
OnlyValidTasks ==
    \A i \in DOMAIN tasks :
        /\ tasks[i].wcet > 0 /\ tasks[i].period > 0 /\ tasks[i].deadline > 0
        /\ tasks[i].deadline <= tasks[i].period

\* A step that leaves the arguments of a constructor call in previous is
\* that call
ConstructionDecided ==
    IsSome(previous') =>
        LET t == The(previous')
        IN  IF /\ t.wcet > 0 /\ t.period > 0 /\ t.deadline > 0
               /\ t.deadline <= t.period
            THEN result' = None /\ tasks' = Append(tasks, t)
            ELSE IsSome(result') /\ tasks' = tasks

\* C16: the construction of a Task succeeds iff wcet > 0, period > 0,
\* deadline > 0 and deadline <= period; a rejected construction raises a
\* validation error and yields no task, so that a task list holds valid
\* tasks only.
C16_ConstructedIffValid ==
    /\ []OnlyValidTasks
    /\ [][ConstructionDecided]_vars

\* A task whose deadline equals its period has been constructed
C16_EqualDeadlineAccepted ==
    /\ IsSome(previous)
    /\ result = None
    /\ The(previous).deadline = The(previous).period
    /\ tasks = <<The(previous)>>

-----------------------------------------------------------------------------
(* The claims about the order of the events of one instant, under Spec.    *)

\* C17: in the event-driven engine a RELEASE event is processed before a
\* COMPLETION event of the same timestamp: when the event to be processed
\* next is a COMPLETION, no RELEASE of that timestamp is still in the event
\* queue.
C17_ReleaseBeforeCompletion ==
    (/\ call.pc = "event"
     /\ EventLoopCondition(call)
     /\ call.event_queue[1].event_type = JOB_COMPLETION)
    => \A i \in DOMAIN call.event_queue :
          ~(/\ call.event_queue[i].event_type = JOB_RELEASE
            /\ call.event_queue[i].time = call.event_queue[1].time)

\* run returns while the occupant has remaining > 0
UnfinishedAtReturnOfRun ==
    /\ call.pc = "run" /\ call'.pc = "idle"
    /\ IsSome(call.current_job)
    /\ sim.jobs[The(call.current_job)].remaining > 0

\* run_event_driven returns while the occupant, having executed up to the
\* horizon, has remaining > 0
UnfinishedAtReturnOfRunEventDriven ==
    /\ call.pc = "event" /\ call'.pc = "idle"
    /\ IsSome(call.current_job)
    /\ sim.jobs[The(call.current_job)].remaining
          - (call.horizon - call.last_time) > 0

\* C18: a job that occupies the processor with remaining > 0 when a run
\* reaches the horizon is finalized, in both engines, as if it completed at
\* the horizon: completed_jobs increases by one and the job is counted as
\* missed iff horizon > its absolute deadline, with lateness horizon -
\* absolute_deadline.
C18_FinalizedAtHorizon ==
    [][(UnfinishedAtReturnOfRun \/ UnfinishedAtReturnOfRunEventDriven)
       => Finalized(The(call.current_job), call.horizon)]_vars

\* C19: when run returns, every job accepted during the run has been
\* counted once: completed_jobs equals the number of jobs accepted (the
\* job counter), and the completed counts of the tasks add up to it.
C19_EveryAcceptedJobCounted ==
    (Ended /\ The(result).engine = "run")
    => /\ Value.completed_jobs = sim.job_counter
       /\ \A n \in TaskNameSet :
             Value.task_stats[n].completed =
                Cardinality({id \in DOMAIN sim.jobs : sim.jobs[id].task.name = n})

-----------------------------------------------------------------------------
(* The caller that keeps a result: as in Spec a caller calls run and       *)
(* run_event_driven on one Simulator, and it may keep the result a call    *)
(* returned (previous) while it makes further calls.                       *)

SnapshotTaskSets == TaskLists(1) \cup {TightPair}

InitSnapshot ==
    /\ tasks \in SnapshotTaskSets
    /\ algo \in {"EDF", "RM"}
    /\ sim = NewSimulator
    /\ call = NoCall
    /\ result = None
    /\ previous = None
    /\ analysis = None

\* The caller keeps the result just returned, in place of the one it kept
KeepResult ==
    /\ call.pc = "idle"
    /\ IsSome(result)
    /\ previous' = Some(Value)
    /\ sim' = [sim EXCEPT
                 !.referenced = {<<n, Value.stats_objects[n]>> :
                                     n \in DOMAIN Value.stats_objects},
                 !.unbound = << >>]
    /\ UNCHANGED <<tasks, algo, call, result, analysis>>

\* A further call of run or of run_event_driven
CallAgain ==
    /\ call.pc = "idle"
    /\ \E horizon \in Horizons, preemptive \in BOOLEAN,
          engine \in {"run", "run_event_driven"} :
          LET M == IF engine = "run" THEN RunEnter(sim, horizon, preemptive)
                   ELSE EventEnter(sim, horizon, preemptive)
          IN  sim' = M.sim /\ call' = M.call
    /\ result' = None
    /\ UNCHANGED <<tasks, algo, previous, analysis>>

NextSnapshot ==
    \/ KeepResult
    \/ CallAgain
    \/ Tick
    \/ ReturnRun
    \/ HandleEvent
    \/ ReturnRunEventDriven

SpecSnapshot == InitSnapshot /\ [][NextSnapshot]_vars

\* C20: a SimulationResult is a snapshot: whatever calls of run and
\* run_event_driven follow on the same Simulator, every field of the result,
\* the per-task entries of task_stats and the timeline included, reads as
\* it did when the result was returned.
C20_ResultIsSnapshot ==
    IsSome(previous) => ReadResult(sim, The(previous)) = The(previous)

\* A result with completed jobs is kept while a later call on the same
\* Simulator has counted completed jobs of its own and has returned a
\* different result
C20_LaterRunReturned ==
    /\ IsSome(previous)
    /\ The(previous).completed_jobs > 0
    /\ IsSome(result)
    /\ Value # The(previous)
    /\ Value.completed_jobs > 0
    /\ \E n \in TaskNameSet :
          Value.task_stats[n] # The(previous).task_stats[n]

-----------------------------------------------------------------------------
(* The claims about the preemption phase, under Spec.                      *)

\* The time that passes for the occupant in the step before the decision
\* is taken: the event-driven engine first executes it up to the event
Elapsed == IF call.pc = "event" THEN call'.last_time - call.last_time ELSE 0

\* The step is a tick or the handling of an event in preemptive mode and
\* the occupant is unfinished at the time of the decision
DecisionWithOccupant ==
    /\ call.preemptive
    /\ call.pc # "idle" /\ call'.pc = call.pc
    /\ IsSome(call.current_job)
    /\ sim.jobs[The(call.current_job)].remaining - Elapsed > 0

\* The occupant is on the processor after the step too
OccupantKept == call'.current_job = call.current_job

\* Another job is on the processor after the step: its priority value is
\* strictly smaller than the occupant's, and the occupant is in the ready
\* queue with the remaining time it had at the decision
OccupantDisplaced ==
    LET a == The(call.current_job)
    IN  /\ IsSome(call'.current_job)
        /\ get_priority(sim'.jobs[The(call'.current_job)])
              < get_priority(sim.jobs[a])
        /\ \E e \in Pending(sim') : e.job = a
        /\ sim'.jobs[a].remaining = sim.jobs[a].remaining - Elapsed

\* C21: in preemptive mode, in both engines, an unfinished occupant is
\* replaced only by a job whose priority value is strictly smaller than its
\* own (otherwise it keeps the processor), and a displaced occupant is put
\* back into the ready queue with its remaining time unchanged.
C21_PreemptedOnlyByStrictlyBetter ==
    [][DecisionWithOccupant => (OccupantKept \/ OccupantDisplaced)]_vars

\* A tick of a preemptive run has displaced the job that executed the unit
\* before: it waits, started and unfinished, while a job of strictly
\* smaller priority value has executed its first unit
C21_OccupantDisplacedByTick ==
    /\ call.preemptive
    /\ TickDone
    /\ call.time >= 2
    /\ IsSome(call.current_job)
    /\ LET b == sim.jobs[The(call.current_job)]
       IN  /\ Executed(b) = 1
           /\ \E e \in Pending(sim) :
                 LET a == sim.jobs[e.job]
                 IN  /\ Executed(a) > 0 /\ a.remaining > 0
                     /\ sim.timeline[call.time - 1][2] = Some(a.task.name)
                     /\ a.task.name # b.task.name
                     /\ get_priority(a) > get_priority(b)

\* The jobs of the ready queue in the order in which get_next_job would
\* return them
RECURSIVE SelectionOrder(_)
SelectionOrder(S) ==
    IF has_jobs(S)
    THEN LET g == get_next_job(S) IN <<The(g.job)>> \o SelectionOrder(g.S)
    ELSE << >>

\* The pair of the simulator and the occupant with which the next tick of
\* run enters its preemption phase (after lines 79-83)
BeforePreemption ==
    CompletionPhase(Pair(release_jobs([sim EXCEPT !.current_time = call.time]),
                         call.current_job))

\* The preemption phase of the next tick of run inspects a pending job and
\* returns it: the selection order of the ready queue is as before
InspectedJobKeepsPosition ==
    LET P == BeforePreemption
        Q == PreemptionPhase(P, call.preemptive)
    IN  (/\ call.pc = "run" /\ call.time < call.horizon
         /\ call.preemptive /\ IsSome(P.cur) /\ has_jobs(P.S)
         /\ Q.cur = P.cur)
        => SelectionOrder(Q.S) = SelectionOrder(P.S)

\* No job waits unstarted while a job of the same priority value that was
\* released after it has started
DispatchedInReleaseOrder ==
    \A e \in Pending(sim) : \A id \in DOMAIN sim.jobs :
        (/\ Executed(sim.jobs[e.job]) = 0
         /\ Priority(id) = Priority(e.job)
         /\ sim.jobs[id].release_time > sim.jobs[e.job].release_time)
        => Executed(sim.jobs[id]) = 0

\* C22: when the preemption phase finds the best pending job not strictly
\* more urgent than the occupant, the ready queue holds afterwards the same
\* entries in the same selection order, and across a run jobs of equal
\* priority are dispatched in the order in which they were released.
C22_InspectedJobReturnedUnchanged ==
    /\ InspectedJobKeepsPosition
    /\ DispatchedInReleaseOrder

-----------------------------------------------------------------------------
(* The claims about the release of jobs, under Spec.                       *)

\* The jobs of a task created so far in the call
JobsOf(task) == {id \in DOMAIN sim.jobs : sim.jobs[id].task = task}

\* The RELEASE events of a task in the event queue
ReleasesQueued(task) ==
    {i \in DOMAIN call.event_queue :
        /\ call.event_queue[i].event_type = JOB_RELEASE
        /\ call.event_queue[i].task = Some(task)}

\* The time before which the releases of a task have taken place: the time
\* of the next tick of run, the time of the task's RELEASE event in the
\* event queue of run_event_driven, and the horizon when there is none and
\* when the call has returned
ReleasedBefore(task) ==
    IF call.pc = "run" THEN call.time
    ELSE IF call.pc = "event" /\ ReleasesQueued(task) # {}
         THEN call.event_queue[CHOOSE i \in ReleasesQueued(task) : TRUE].time
         ELSE IF call.pc = "event" THEN call.horizon ELSE Value.total_time

\* The multiples of the task's period in [0, bound)
Multiples(task, bound) == {t \in 0..(bound - 1) : t % task.period = 0}

\* The units of the timeline attributed to a task
UnitsOf(task) ==
    {k \in DOMAIN sim.timeline : sim.timeline[k][2] = Some(task.name)}

\* One job of the task for each multiple of its period so far, and no other
ReleasedAtMultiples(task) ==
    /\ {sim.jobs[id].release_time : id \in JobsOf(task)}
          = Multiples(task, ReleasedBefore(task))
    /\ Cardinality(JobsOf(task))
          = Cardinality(Multiples(task, ReleasedBefore(task)))
    /\ Cardinality(ReleasesQueued(task)) <= 1
    /\ (call.pc = "event" /\ ReleasesQueued(task) # {})
          => /\ ReleasedBefore(task) >= call.last_time
             /\ ReleasedBefore(task) % task.period = 0
    /\ Ended => Cardinality(JobsOf(task))
                   = (Value.total_time + task.period - 1) \div task.period

\* Every job has the absolute deadline of its release, every unit it has
\* executed since it started with remaining = wcet is a unit of the
\* timeline, and it is in the ready queue until it starts
CreatedAsReleased(task) ==
    /\ \A id \in JobsOf(task) :
          LET job == sim.jobs[id]
          IN  /\ job.job_id = id
              /\ job.absolute_deadline = job.release_time + task.deadline
              /\ Executed(job) >= 0
              /\ (Executed(job) = 0 /\ call.current_job # Some(id))
                    => \E e \in Pending(sim) : e.job = id
    /\ Cardinality({<<id, k>> \in JobsOf(task) \X (1..task.wcet) :
                       k <= Executed(sim.jobs[id])})
          = Cardinality(UnitsOf(task))

\* The job ids are the numbers from 0 in the order of creation
NumberedInOrder ==
    /\ DOMAIN sim.jobs = 0..(sim.job_counter - 1)
    /\ \A a, b \in DOMAIN sim.jobs :
          a < b => sim.jobs[a].release_time <= sim.jobs[b].release_time

\* C23: in both engines a job of each task is created at exactly the
\* multiples of the task's period in [0, horizon), ceil(horizon / period)
\* jobs per task, each with remaining = wcet and absolute deadline = release
\* time + relative deadline, admitted to the ready queue, with a job id of
\* its own, the ids increasing in the order of creation.
C23_ReleasedAtMultiplesOfPeriod ==
    (call.pc # "idle" \/ Ended)
    => /\ NumberedInOrder
       /\ \A i \in DOMAIN tasks :
             ReleasedAtMultiples(tasks[i]) /\ CreatedAsReleased(tasks[i])

\* run_event_driven has returned from a horizon that is no multiple of a
\* task's period: the task's last job was released less than a period
\* before the horizon, and it has a deadline shorter than its period
C23_LastReleaseBeforeHorizon ==
    /\ Ended
    /\ The(result).engine = "run_event_driven"
    /\ \E i \in DOMAIN tasks :
          /\ tasks[i].period > 1
          /\ tasks[i].deadline < tasks[i].period
          /\ Value.total_time % tasks[i].period # 0
          /\ Cardinality(JobsOf(tasks[i])) >= 2
          /\ \E id \in JobsOf(tasks[i]) :
                sim.jobs[id].release_time + tasks[i].period > Value.total_time

-----------------------------------------------------------------------------
(* The claims about the COMPLETION events, under Spec.                     *)

\* The COMPLETION events in the event queue
CompletionsQueued ==
    {i \in DOMAIN call.event_queue :
        call.event_queue[i].event_type = JOB_COMPLETION}

\* The COMPLETION event at position i is the occupant's, at the time at
\* which the occupant has executed its remaining time: last_time is the
\* time up to which the occupant has executed, so that last_time +
\* remaining is the time of its latest dispatch plus its remaining time at
\* that dispatch
CompletionOfOccupant(i) ==
    /\ IsSome(call.current_job)
    /\ call.event_queue[i].job = call.current_job
    /\ call.event_queue[i].time
          = call.last_time + sim.jobs[The(call.current_job)].remaining

\* C24: in the event-driven engine the event queue holds at most one
\* COMPLETION event, the occupant's, at the time of its latest dispatch plus
\* its remaining time at that dispatch, also after a preemption; the
\* COMPLETION event processed next is that of the occupant at the time at
\* which its remaining time is 0.
C24_OneCompletionOfOccupant ==
    call.pc = "event"
    => /\ Cardinality(CompletionsQueued) <= 1
       /\ \A i \in CompletionsQueued : CompletionOfOccupant(i)
       /\ IsSome(call.current_job) => CompletionsQueued # {}
       /\ (/\ EventLoopCondition(call)
           /\ call.event_queue[1].event_type = JOB_COMPLETION)
          => sim.jobs[The(call.current_job)].remaining
                - (call.event_queue[1].time - call.last_time) = 0

\* A preemption has taken place in run_event_driven: the displaced job
\* waits with a part of its wcet executed, and the one COMPLETION event of
\* the queue is that of the job that displaced it
C24_RescheduledAfterPreemption ==
    /\ call.pc = "event"
    /\ call.preemptive
    /\ IsSome(call.current_job)
    /\ Executed(sim.jobs[The(call.current_job)]) = 0
    /\ Cardinality(CompletionsQueued) = 1
    /\ \A i \in CompletionsQueued : CompletionOfOccupant(i)
    /\ \E e \in Pending(sim) :
          /\ Executed(sim.jobs[e.job]) > 0
          /\ sim.jobs[e.job].remaining > 0
          /\ sim.timeline # << >>
          /\ sim.timeline[Len(sim.timeline)][2]
                = Some(sim.jobs[e.job].task.name)

-----------------------------------------------------------------------------
(* The claims about the estimates of the response-time analysis, under     *)
(* SpecAnalysis.  Trace[k] lists the estimates R0, R1, ... of the k-th     *)
(* task of the sorted list.                                                *)

\* The j-th estimate of the k-th task is the new_response_time that the
\* test of line 124 found beyond the deadline
Rejected(k, j) ==
    /\ j = Len(Trace[k]) /\ j >= 2
    /\ Trace[k][j] > sorted_by_period(tasks)[k].deadline

\* The estimates of the k-th task do not decrease and are at least wcet_i
\* plus the wcets of the tasks of higher priority
EstimatesNonDecreasing(k) ==
    /\ \A j \in 1..(Len(Trace[k]) - 1) : Trace[k][j] <= Trace[k][j + 1]
    /\ \A j \in DOMAIN Trace[k] :
          Trace[k][j] >= initial_response_time(sorted_by_period(tasks), k)

\* C25: within the response-time analysis of one task the successive
\* estimates R0 <= R1 <= R2 <= ... do not decrease, every estimate is at
\* least wcet_i plus the sum of the wcets of higher priority, and every
\* estimate that is not rejected is at most deadline_i.
C25_EstimatesWithinDeadline ==
    IsSome(analysis) =>
        \A k \in DOMAIN Trace :
            /\ EstimatesNonDecreasing(k)
            /\ \A j \in DOMAIN Trace[k] :
                  ~Rejected(k, j)
                  => Trace[k][j] <= sorted_by_period(tasks)[k].deadline

\* C25 as amended: the estimates do not decrease, every estimate is at
\* least wcet_i plus the sum of the wcets of higher priority, and every
\* estimate after the initial one R0 that is not rejected is at most
\* deadline_i.
C25_LaterEstimatesWithinDeadline ==
    IsSome(analysis) =>
        \A k \in DOMAIN Trace :
            /\ EstimatesNonDecreasing(k)
            /\ \A j \in 2..Len(Trace[k]) :
                  ~Rejected(k, j)
                  => Trace[k][j] <= sorted_by_period(tasks)[k].deadline

\* An analysis has ended by rejecting the estimate of a task whose initial
\* estimate was within the deadline and whose estimates grew twice
C25_GrewAndRejected ==
    /\ Analysed
    /\ \E k \in DOMAIN Trace :
          /\ Len(Trace[k]) >= 3
          /\ Rejected(k, Len(Trace[k]))
          /\ Trace[k][1] < Trace[k][2]
          /\ Trace[k][2] < Trace[k][3]
          /\ Trace[k][1] <= sorted_by_period(tasks)[k].deadline

-----------------------------------------------------------------------------
(* The claim about the response-time test and the simulation, under Spec.  *)

\* C26: for every valid task set, tasks of one period included, that
\* RMScheduler.is_scalable declares schedulable through the response-time
\* analysis, the preemptive RM run reports no missed deadline, at every
\* horizon.
C26_AcceptedByAnalysisNeverMisses ==
    (/\ Ended
     /\ The(result).engine = "run"
     /\ The(result).preemptive
     /\ algo = "RM"
     /\ The(is_scalable(tasks, Some("Console")).outcome)
           = ReturnPair(TRUE, RM_RTA_SCALABILITY_MESSAGE))
    => Value.missed_deadlines = 0

-----------------------------------------------------------------------------
(* The claim about the dispatch in non-preemptive mode, under Spec.        *)

\* The occupant was dispatched at the time of the last decision: in run it
\* has executed its first unit in the last tick, in run_event_driven it has
\* not executed yet
DispatchedNow ==
    /\ IsSome(call.current_job)
    /\ \/ TickDone /\ Executed(sim.jobs[The(call.current_job)]) = 1
       \/ InstantDone /\ Executed(sim.jobs[The(call.current_job)]) = 0

\* C27: in non-preemptive mode, in both engines, the job dispatched to a
\* free processor at time t has the smallest priority value among all the
\* unfinished jobs released at or before t, those released at t included.
C27_FreeProcessorTakesMostUrgent ==
    (~call.preemptive /\ DispatchedNow)
    => \A id \in DOMAIN sim.jobs :
          sim.jobs[id].remaining > 0
          => Priority(The(call.current_job)) <= Priority(id)

-----------------------------------------------------------------------------
(* The termination of run_event_driven.  The program is sequential: a call *)
(* that can take its next step, the handling of an event or the return,    *)
(* takes it.                                                               *)

NextEventDriven ==
    \/ CallRunEventDriven
    \/ HandleEvent
    \/ ReturnRunEventDriven

\* The caller that calls run_event_driven only
SpecEventDriven == Init /\ [][NextEventDriven]_vars

\* The weak fairness of the step of the event loop, written out: in a call
\* of run_event_driven (call.pc = "event") exactly one of HandleEvent and
\* ReturnRunEventDriven is enabled, and every step is one of them
FairSpec ==
    SpecEventDriven
        /\ ([]<>(call.pc # "event") \/ []<><<call.pc = "event">>_vars)

\* The RELEASE events still to be handled: those of the event queue and, for
\* each of them, the later releases of its task before the horizon
ReleasesLeft ==
    Cardinality({<<i, t>> \in (DOMAIN call.event_queue) \X (0..call.horizon) :
                    /\ call.event_queue[i].event_type = JOB_RELEASE
                    /\ t >= call.event_queue[i].time
                    /\ t < call.horizon
                    /\ (t - call.event_queue[i].time)
                          % The(call.event_queue[i].task).period = 0})

\* A bound on the events that the loop has still to process: a RELEASE
\* admits one job and reschedules its task strictly later, before the
\* horizon only; a dispatch takes a job from the ready queue and schedules
\* one COMPLETION
EventsLeft ==
    3 * ReleasesLeft + 2 * Len(sim.ready_queue) + Cardinality(CompletionsQueued)

\* Nothing that the next iteration of the loop evaluates can raise: the
\* event at the head carries the task or the job its handler reads, and no
\* two entries of the ready queue agree in priority and sequence number, so
\* that heapq never compares two Job objects (Job defines no order)
NextEventHandled ==
    /\ \A i \in DOMAIN call.event_queue :
          LET event == call.event_queue[i]
          IN  IF event.event_type = JOB_RELEASE
              THEN \E k \in DOMAIN tasks : event.task = Some(tasks[k])
              ELSE /\ event.event_type = JOB_COMPLETION
                   /\ IsSome(event.job)
                   /\ The(event.job) \in DOMAIN sim.jobs
    /\ \A i, j \in DOMAIN sim.ready_queue :
          i # j => sim.ready_queue[i].counter # sim.ready_queue[j].counter
    /\ IsSome(call.current_job) => The(call.current_job) \in DOMAIN sim.jobs

\* The handling of an event leaves fewer events to process
EventsDecrease ==
    (call.pc = "event" /\ call'.pc = "event") => EventsLeft' < EventsLeft

\* C28: for every task set, scheduler, mode and horizon run_event_driven
\* terminates and returns a result: no step of the loop can fail, every
\* handled event lowers a bound on the events still to process, and the
\* call that has started returns.
C28_EventLoopTerminates ==
    /\ [](call.pc = "event" => NextEventHandled)
    /\ [][EventsDecrease]_vars
    /\ (call.pc = "event") ~> (call.pc = "idle" /\ Ended)

\* run_event_driven has returned from a positive horizon after handling the
\* releases of several periods and a preemption or a wait: more jobs were
\* created than there are tasks and a job is still pending
C28_ReturnedAfterManyEvents ==
    /\ Ended
    /\ The(result).engine = "run_event_driven"
    /\ Value.total_time > 0
    /\ sim.job_counter > Len(tasks)
    /\ Value.completed_jobs >= 2
    /\ sim.ready_queue # << >>

-----------------------------------------------------------------------------
(* The claim about the aggregate statistics, under Spec.                   *)

\* The sum of the per-task statistics over the first n tasks
RECURSIVE SumStats(_, _)
SumStats(stats, n) ==
    IF n = 0 THEN ZeroStats
    ELSE LET rest == SumStats(stats, n - 1)
             mine == stats[tasks[n].name]
         IN  [completed |-> rest.completed + mine.completed,
              missed |-> rest.missed + mine.missed,
              total_lateness |-> rest.total_lateness + mine.total_lateness]

\* The aggregates are the sums of the per-task statistics and are ordered
AggregatesConsistent(completed_jobs, missed_deadlines, total_lateness, stats) ==
    /\ SumStats(stats, Len(tasks))
          = [completed |-> completed_jobs, missed |-> missed_deadlines,
             total_lateness |-> total_lateness]
    /\ 0 <= missed_deadlines
    /\ missed_deadlines <= completed_jobs
    /\ total_lateness >= missed_deadlines

\* C29: at every point of a run and in every returned result the aggregates
\* are consistent: completed_jobs, missed_deadlines and total_lateness are
\* the sums of the per-task counts, 0 <= missed_deadlines <= completed_jobs
\* and total_lateness >= missed_deadlines; success_rate lies in [0, 100]
\* and is 0 when completed_jobs = 0.
C29_AggregatesConsistent ==
    /\ AggregatesConsistent(sim.completed_jobs, sim.missed_deadlines,
                            sim.total_lateness, sim.task_stats)
    /\ Ended =>
          /\ AggregatesConsistent(Value.completed_jobs, Value.missed_deadlines,
                                  Value.total_lateness, Value.task_stats)
          /\ FloatLe(FloatZero, success_rate(Value))
          /\ FloatLe(success_rate(Value), FloatTimes(FloatOne, 100))
          /\ Value.completed_jobs = 0 => success_rate(Value) = FloatZero

\* A run has returned in which two tasks completed jobs, a job of one of
\* them late, and not every job was late
C29_SomeLateSomeInTime ==
    /\ Ended
    /\ Value.missed_deadlines >= 1
    /\ Value.completed_jobs > Value.missed_deadlines
    /\ Value.total_lateness >= 1
    /\ \E a, b \in TaskNameSet :
          /\ a # b
          /\ Value.task_stats[a].completed > 0
          /\ Value.task_stats[b].missed > 0
    /\ ~FloatLe(success_rate(Value), FloatZero)
    /\ success_rate(Value) # FloatTimes(FloatOne, 100)

-----------------------------------------------------------------------------
(* The claim about idle time, under Spec.                                  *)

\* The units before unit u that the timeline attributes to a task
UnitsBefore(task, u) ==
    Cardinality({k \in 1..u : sim.timeline[k][2] = Some(task.name)})

\* At unit u no released job is unfinished: every task has received, in the
\* units before u, the wcet of each of its jobs released at or before u
NothingToExecute(u) ==
    \A i \in DOMAIN tasks :
        UnitsBefore(tasks[i], u)
            = tasks[i].wcet * ((u \div tasks[i].period) + 1)

\* C30: both engines are work-conserving in both modes: the timeline
\* records idle for a time unit only if no released job is unfinished at
\* that unit; and when the processor is left free by the decisions of an
\* instant, there is no occupant because the ready queue is empty.
C30_IdleOnlyWithoutWork ==
    /\ \A k \in DOMAIN sim.timeline :
          sim.timeline[k][2] = None => NothingToExecute(k - 1)
    /\ ((TickDone \/ InstantDone) /\ call.current_job = None)
          => /\ sim.ready_queue = << >>
             /\ \A id \in DOMAIN sim.jobs : sim.jobs[id].remaining <= 0

\* run_event_driven has returned a timeline with an idle unit between two
\* units in which jobs executed
C30_IdleBetweenJobs ==
    /\ Ended
    /\ The(result).engine = "run_event_driven"
    /\ \E k \in 2..(Len(Value.timeline) - 1) :
          /\ Value.timeline[k - 1][2] # None
          /\ Value.timeline[k][2] = None
          /\ Value.timeline[k + 1][2] # None

-----------------------------------------------------------------------------
(* The claim about the conservation of execution, under Spec.              *)

\* The units that the jobs of a set have executed, added up
RECURSIVE SumExecuted(_)
SumExecuted(ids) ==
    IF ids = {} THEN 0
    ELSE LET id == CHOOSE x \in ids : TRUE
         IN  Executed(sim.jobs[id]) + SumExecuted(ids \ {id})

\* No job has more than its wcet left or less than nothing
RemainingWithinBounds ==
    \A id \in DOMAIN sim.jobs :
        /\ sim.jobs[id].remaining >= 0
        /\ sim.jobs[id].remaining <= sim.jobs[id].task.wcet

\* The units of the timeline attributed to a task are the units its jobs
\* have executed
TaskUnitsConserved ==
    \A i \in DOMAIN tasks :
        Cardinality(UnitsOf(tasks[i])) = SumExecuted(JobsOf(tasks[i]))

\* The job that occupies the processor in the units a step records: a tick
\* records the unit of the job it leaves as occupant (lines 101-113), an
\* event and the return of run_event_driven record the units since
\* last_time of the job they find as occupant (lines 158-174, 224-235)
RanInStep ==
    IF call.pc = "run" /\ call'.pc = "run" THEN call'.current_job
    ELSE IF call.pc = "event" THEN call.current_job
    ELSE None

\* The timeline entries a step records
RecordedInStep == (Len(sim.timeline) + 1)..Len(sim'.timeline)

\* What a job had left before the step; its wcet if the step creates it
RemainingBefore(id) ==
    IF id \in DOMAIN sim.jobs THEN sim.jobs[id].remaining
    ELSE sim'.jobs[id].task.wcet

\* A step of a call takes from the occupant as many units as it records
\* under the name of the occupant's task, and nothing from any other job
ExecutionRecorded ==
    call.pc # "idle" =>
        /\ DOMAIN sim.jobs \subseteq DOMAIN sim'.jobs
        /\ \A id \in DOMAIN sim'.jobs :
              /\ sim'.jobs[id].remaining <= RemainingBefore(id)
              /\ RemainingBefore(id) - sim'.jobs[id].remaining
                    = IF RanInStep = Some(id)
                      THEN Cardinality(RecordedInStep) ELSE 0
        /\ \A k \in RecordedInStep :
              sim'.timeline[k][2] =
                 IF IsSome(RanInStep)
                 THEN Some(sim'.jobs[The(RanInStep)].task.name)
                 ELSE None

\* The step finalizes a job on its completion: in a tick (lines 81-83), on
\* a COMPLETION event (line 212) or when run_event_driven ends (line 232);
\* the return of run finalizes an unfinished occupant instead (line 117)
FinalizedOnCompletion ==
    /\ call.pc # "idle"
    /\ ~(call.pc = "run" /\ call'.pc = "idle")
    /\ sim'.completed_jobs > sim.completed_jobs

\* The job finalized on completion is the occupant the step finds, and it
\* has nothing left: it has received exactly its wcet
FinalizedWithWcet ==
    FinalizedOnCompletion =>
        /\ IsSome(call.current_job)
        /\ sim'.jobs[The(call.current_job)].remaining = 0
        /\ Executed(sim'.jobs[The(call.current_job)])
              = sim.jobs[The(call.current_job)].task.wcet

\* C31: execution is conserved in both engines: a step takes from a job
\* exactly the timeline units it records while the job is the occupant, so
\* wcet - remaining is the number of those units; remaining never increases
\* and never goes below 0; a job finalized on completion has received
\* exactly wcet units; and each task's units in the timeline equal the sum
\* of wcet - remaining over its jobs.
C31_ExecutionConserved ==
    /\ [](RemainingWithinBounds /\ TaskUnitsConserved)
    /\ [][ExecutionRecorded /\ FinalizedWithWcet]_vars

\* run_event_driven has returned after its final run to the horizon took
\* two units at once from the only job, which it finalized with nothing left
C31_TwoUnitsAtOnceToHorizon ==
    /\ Ended
    /\ The(result).engine = "run_event_driven"
    /\ Len(tasks) = 1
    /\ tasks[1].wcet = 2
    /\ Value.total_time = 2
    /\ Value.completed_jobs = 1
    /\ DOMAIN sim.jobs = {0}
    /\ sim.jobs[0].remaining = 0
    /\ Value.timeline = << <<0, Some(tasks[1].name)>>, <<1, Some(tasks[1].name)>> >>

-----------------------------------------------------------------------------
(* The claim about the finalization of a job at most once, under Spec.     *)

\* The jobs waiting in the ready queue
Waiting(S) == {e.job : e \in Pending(S)}

\* The jobs that are finished
FinishedJobs == {id \in DOMAIN sim.jobs : sim.jobs[id].remaining <= 0}

\* The jobs finalized so far in the call, or in the call that has returned:
\* the finished jobs that have left the processor (lines 81-83, 212-213),
\* the occupant that run_event_driven finishes at the horizon (line 232)
\* and the unfinished occupant of run at the horizon (line 117)
FinalizedJobs ==
    IF call.pc # "idle"
    THEN {id \in FinishedJobs : call.current_job # Some(id)}
    ELSE IF The(result).engine = "run"
         THEN {id \in DOMAIN sim.jobs :
                  (id \in FinishedJobs) # (call.current_job = Some(id))}
         ELSE FinishedJobs

\* Every job finalized has been counted once, in all and for its task; no
\* more jobs are counted than were released; and no job finalized waits in
\* the ready queue
FinalizedJobsCountedOnce ==
    (call.pc # "idle" \/ Ended) =>
        /\ sim.completed_jobs = Cardinality(FinalizedJobs)
        /\ \A i \in DOMAIN tasks :
              sim.task_stats[tasks[i].name].completed
                 = Cardinality(FinalizedJobs \cap JobsOf(tasks[i]))
        /\ sim.completed_jobs <= sim.job_counter
        /\ Cardinality(DOMAIN sim.jobs) = sim.job_counter
        /\ FinalizedJobs \cap Waiting(sim) = {}

\* The step calls _complete_job
FinalizationStep ==
    call.pc # "idle" /\ sim'.completed_jobs # sim.completed_jobs

\* A step finalizes at most one job, the occupant it finds: the job does
\* not wait in the ready queue, it is counted once, for its task, and it
\* is neither the occupant nor in the ready queue after the step
OccupantFinalized ==
    FinalizationStep =>
        /\ IsSome(call.current_job)
        /\ LET j == The(call.current_job)
           IN  /\ j \notin FinalizedJobs
               /\ j \in FinalizedJobs'
               /\ j \notin Waiting(sim)
               /\ j \notin Waiting(sim')
               /\ call'.pc = "idle" \/ call'.current_job # Some(j)
               /\ sim'.completed_jobs = sim.completed_jobs + 1
               /\ \A n \in TaskNameSet :
                     sim'.task_stats[n].completed =
                        sim.task_stats[n].completed
                           + (IF n = sim.jobs[j].task.name THEN 1 ELSE 0)

\* A job finalized stays finalized: no later step of the call executes it,
\* admits it to the ready queue, dispatches it or finalizes it again
FinalizedForGood ==
    call.pc # "idle" =>
        /\ \A j \in FinalizedJobs :
              /\ j \in FinalizedJobs'
              /\ sim'.jobs[j] = sim.jobs[j]
              /\ j \notin Waiting(sim')
              /\ call'.pc = "idle" \/ call'.current_job # Some(j)
        /\ ~FinalizationStep => FinalizedJobs' = FinalizedJobs

\* C32: in both engines no job is finalized more than once and none while
\* it waits in the ready queue: each finalization is of the occupant, which
\* then leaves the processor for good, so completed_jobs never exceeds the
\* number of jobs released in the run and a finalized job is never executed
\* or dispatched again.
C32_FinalizedOnceAsOccupant ==
    /\ []FinalizedJobsCountedOnce
    /\ [][OccupantFinalized /\ FinalizedForGood]_vars

\* In a call in progress two jobs have been finalized, one of them of the
\* task of the job that occupies the processor now, while another job waits
C32_LaterJobOfSameTaskRuns ==
    /\ call.pc # "idle"
    /\ sim.completed_jobs >= 2
    /\ IsSome(call.current_job)
    /\ sim.ready_queue # << >>
    /\ \E j \in FinalizedJobs :
          sim.jobs[j].task = sim.jobs[The(call.current_job)].task

=============================================================================
